---- MODULE Spec2Model ----
(***************************************************************************)
(* PhotoNet: the authentication token lifecycle (signup, e-mail            *)
(* confirmation, login, refresh-token rotation, ban gate, access-token     *)
(* verification) modelled from src/src/routes/auth.py,                     *)
(* src/src/services/auth.py, src/src/repository/users.py and               *)
(* src/src/routes/users.py; and the gallery (images, tags, ratings) from   *)
(* src/src/repository/images.py, src/src/repository/ratings.py,            *)
(* src/src/repository/search.py, src/src/services/images.py and the        *)
(* routes that call them.                                                  *)
(*                                                                         *)
(* The database table `users` is a sequence of rows in insertion order; a  *)
(* row's id is its index.  A JWT is modelled by the claims it carries and  *)
(* the key that signed it: python-jose writes iat and exp as whole seconds *)
(* and HS256 is deterministic, so two tokens are the same string exactly   *)
(* when these records are equal.                                           *)
(***************************************************************************)
EXTENDS Integers, Sequences, FiniteSets, TLC

VARIABLES
    users,       \* the users table: Seq of rows
    clock,       \* the position of the clock on Timeline
    issued,      \* every token the service has handed out (held by clients)
    lastIssued,  \* history: per user id, the refresh token of its latest successful login/refresh
    inflight,    \* refresh requests between their read and their write (SpecConc only)
    last,        \* the request served last at the current instant, and its response
    signing,     \* requests between their reads and their insert (SpecSignup, SpecRatingRace)
    images,      \* the images table: a set of rows
    tags,        \* the tags table: the set of tag names that have a row
    ratings,     \* the ratings table: a set of rows
    comments,    \* the comments table: a set of rows
    nextId       \* per table, the id its next inserted row gets (autoincrement)

vars == <<users, clock, issued, lastIssued, inflight, last, signing, images, tags, ratings,
          comments, nextId>>

\* The tables and requests the authentication routes never touch.
galleryVars == <<signing, images, tags, ratings, comments, nextId>>

\* What the gallery routes never touch.
tokenVars == <<clock, issued, lastIssued, inflight>>

----------------------------------------------------------------------------
(* Bounds and program constants *)

MaxTokens == 2
MaxInflight == 2
MaxSigning == 2
MaxRatings == 2
MaxLen == 3
MaxImages == 2
MaxAccounts == 4

AccessTTL == 3600
max_length == 25
TagLen == 25
MaxImageTags == 5
RefreshTTL == 604800
EmailTTL == 86400

Emails == {"a@x", "b@x"}
SignupPasswords == {"pw1"}
LoginPasswords == {"pw1", "pw2"}

\* The instants (whole seconds) at which requests are made: a first second, the
\* next one, and one past the expiry of every token issued in the first two.
Timeline == <<0, 1, RefreshTTL + 2>>

SECRET_KEY == "secret"
Scopes == {"access_token", "refresh_token"}

\* Python's None for a nullable token column / an absent token in a response.
NULL == [null |-> TRUE]

\* datetime.utcnow(), truncated to the second as jwt.encode does
now == Timeline[clock]

----------------------------------------------------------------------------
(* src/src/services/auth.py: the token service *)

\* jwt.encode: the claims plus the signing key.
create_access_token(sub, t) ==
    [sub |-> sub, iat |-> t, exp |-> t + AccessTTL, scope |-> "access_token", sig |-> SECRET_KEY]

create_refresh_token(sub, t) ==
    [sub |-> sub, iat |-> t, exp |-> t + RefreshTTL, scope |-> "refresh_token", sig |-> SECRET_KEY]

\* The e-mail token carries no scope claim.
create_email_token(sub, t) ==
    [sub |-> sub, iat |-> t, exp |-> t + EmailTTL, sig |-> SECRET_KEY]

\* Tokens a client can fabricate without the key: any claims, a signature that
\* does not verify.  Their expiry is far in the future.
Forged ==
    {[sub |-> e, iat |-> 0, exp |-> 100 * RefreshTTL, scope |-> s, sig |-> "forged"] :
        e \in {"a@x"}, s \in Scopes}

\* jwt.decode(token, SECRET_KEY): "JWTError" for a bad signature,
\* "ExpiredSignatureError" (a JWTError) when exp < now, else "ok".
jwt_decode(token, t) ==
    IF token.sig # SECRET_KEY THEN "JWTError"
    ELSE IF token.exp < t THEN "ExpiredSignatureError"
    ELSE "ok"

HasScope(token) == "scope" \in DOMAIN token

\* get_password_hash / verify_password (bcrypt): verify succeeds exactly for the
\* password that was hashed.
get_password_hash(password) == <<"bcrypt", password>>

verify_password(plain_password, hashed_password) ==
    hashed_password = get_password_hash(plain_password)

\* What a handler answers: an HTTP status, the detail of the HTTPException (or
\* "ok"), the e-mail a token decoded to ("" when none) and the id of the user
\* row it resolved to (0 when none).
Result(status, detail, email, user) ==
    [status |-> status, detail |-> detail, email |-> email, user |-> user]

\* Mutant: decode_refresh_token without the scope check.
decode_refresh_token_any_scope(token, t) ==
    IF jwt_decode(token, t) # "ok"
    THEN Result(401, "could_not_validate_credentials", "", 0)
    ELSE Result(200, "ok", token.sub, 0)

\* Auth.decode_refresh_token
decode_refresh_token(token, t) ==
    IF jwt_decode(token, t) # "ok"
    THEN Result(401, "could_not_validate_credentials", "", 0)
    ELSE IF ~HasScope(token)
    THEN Result(500, "KeyError", "", 0)
    ELSE IF token.scope = "refresh_token"
    THEN Result(200, "ok", token.sub, 0)
    ELSE Result(401, "invalid_scope_for_token", "", 0)

\* Auth.get_email_from_token: no scope check
get_email_from_token(token, t) ==
    IF jwt_decode(token, t) # "ok"
    THEN Result(422, "invalid_token_for_email_verification", "", 0)
    ELSE Result(200, "ok", token.sub, 0)

----------------------------------------------------------------------------
(* src/src/repository/users.py *)

\* get_user_by_email: the id of the first row with that e-mail, 0 for None
get_user_by_email(db, email) ==
    IF \E i \in 1..Len(db) : db[i].email = email
    THEN CHOOSE i \in 1..Len(db) :
            /\ db[i].email = email
            /\ \A j \in 1..(i - 1) : db[j].email # email
    ELSE 0

\* create_user: admin when no row has role admin, else user; the columns'
\* defaults are confirmed = False, banned = False, refresh_token = NULL
create_user(db, email, password) ==
    Append(db, [email |-> email,
                password |-> password,
                role |-> IF \E i \in 1..Len(db) : db[i].role = "admin" THEN "user" ELSE "admin",
                confirmed |-> FALSE,
                banned |-> FALSE,
                refresh_token |-> NULL])

\* Mutant: update_token that leaves the column alone when given None.
update_token_skips_none(db, id, token) ==
    IF token = NULL THEN db ELSE [db EXCEPT ![id].refresh_token = token]

\* Mutant: update_token that writes the token to every row.
update_token_all_rows(db, id, token) ==
    [i \in 1..Len(db) |-> [db[i] EXCEPT !.refresh_token = token]]

\* update_token
update_token(db, id, token) == [db EXCEPT ![id].refresh_token = token]

\* Mutant: confirmed_email that confirms every row.
confirmed_email_all_rows(db, email) ==
    [i \in 1..Len(db) |-> [db[i] EXCEPT !.confirmed = TRUE]]

\* confirmed_email (repository)
confirmed_email(db, email) ==
    [db EXCEPT ![get_user_by_email(db, email)].confirmed = TRUE]

\* block that also clears the stored refresh token of the row
block_clears_token(db, email, banned) ==
    IF get_user_by_email(db, email) # 0
    THEN [db EXCEPT ![get_user_by_email(db, email)].banned = banned,
                    ![get_user_by_email(db, email)].refresh_token = NULL]
    ELSE db

\* block: sets banned when the user exists
block(db, email, banned) ==
    IF get_user_by_email(db, email) # 0
    THEN [db EXCEPT ![get_user_by_email(db, email)].banned = banned]
    ELSE db

\* Mutant: get_current_user that refuses a banned account.
get_current_user_checks_ban(db, token, t) ==
    IF jwt_decode(token, t) # "ok"
    THEN Result(401, "could_not_validate_credentials", "", 0)
    ELSE IF ~HasScope(token)
    THEN Result(500, "KeyError", "", 0)
    ELSE IF token.scope # "access_token"
    THEN Result(401, "could_not_validate_credentials", "", 0)
    ELSE IF get_user_by_email(db, token.sub) # 0 /\ db[get_user_by_email(db, token.sub)].banned
    THEN Result(403, "banned", "", 0)
    ELSE Result(200, "ok", token.sub, get_user_by_email(db, token.sub))

\* Mutant: get_current_user that answers a wrong scope as decode_refresh_token does.
get_current_user_scope_error(db, token, t) ==
    IF jwt_decode(token, t) # "ok"
    THEN Result(401, "could_not_validate_credentials", "", 0)
    ELSE IF ~HasScope(token)
    THEN Result(500, "KeyError", "", 0)
    ELSE IF token.scope = "access_token"
    THEN Result(200, "ok", token.sub, get_user_by_email(db, token.sub))
    ELSE Result(401, "invalid_scope_for_token", "", 0)

\* Auth.get_current_user: every failure raises the one credentials_exception;
\* on success the user row found for the subject (0 for None).  Account.banned
\* is not read.
get_current_user(db, token, t) ==
    IF jwt_decode(token, t) # "ok"
    THEN Result(401, "could_not_validate_credentials", "", 0)
    ELSE IF ~HasScope(token)
    THEN Result(500, "KeyError", "", 0)
    ELSE IF token.scope = "access_token"
    THEN Result(200, "ok", token.sub, get_user_by_email(db, token.sub))
    ELSE Result(401, "could_not_validate_credentials", "", 0)

\* services/roles.py RolesAccess(allowed_roles): the role must be in the list
RolesAccess(allowed_roles, role) == role \in allowed_roles

access_block == {"admin"}

----------------------------------------------------------------------------
(* Requests and responses *)

Response(op, req, status, detail, user, access, refresh) ==
    [op |-> op, req |-> req, status |-> status, detail |-> detail,
     user |-> user, access_token |-> access, refresh_token |-> refresh]

NoRequest == Response("none", NULL, 0, "", 0, NULL, NULL)

\* The run issues at most MaxTokens distinct refresh tokens: a login or refresh
\* that would issue one more is not made.
RefreshTokens == {t \in issued : HasScope(t) /\ t.scope = "refresh_token"}
Room(refresh) == refresh \in issued \/ Cardinality(RefreshTokens) < MaxTokens

\* What a client may present as a bearer / path token.
Presentable == issued \cup Forged

Init ==
    /\ users = <<>>
    /\ clock = 1
    /\ issued = {}
    /\ lastIssued = [i \in {} |-> NULL]
    /\ inflight = [s \in 1..MaxInflight |-> NULL]
    /\ last = NoRequest
    /\ signing = [s \in 1..MaxSigning |-> NULL]
    /\ images = {}
    /\ tags = {}
    /\ ratings = {}
    /\ comments = {}
    /\ nextId = [image |-> 1, tag |-> 1, rating |-> 1, comment |-> 1]

\* The clock advances to the next instant; the response of the previous
\* instant has been delivered.
Tick ==
    /\ clock < Len(Timeline)
    /\ clock' = clock + 1
    /\ last' = NoRequest
    /\ UNCHANGED <<users, issued, lastIssued, inflight>>

\* routes/auth.py signup; send_email issues the e-mail token
signup(email, password) ==
    /\ UNCHANGED <<clock, inflight>>
    /\ \/ /\ get_user_by_email(users, email) # 0
          /\ last' = Response("signup", [username |-> email, password |-> password],
                              409, "account_already_exists", 0, NULL, NULL)
          /\ UNCHANGED <<users, issued, lastIssued>>
       \/ /\ get_user_by_email(users, email) = 0
          /\ users' = create_user(users, email, get_password_hash(password))
          /\ lastIssued' = [i \in 1..(Len(users) + 1) |-> IF i <= Len(users) THEN lastIssued[i] ELSE NULL]
          /\ issued' = issued \cup {create_email_token(email, now)}
          /\ last' = Response("signup", [username |-> email, password |-> password],
                              201, "ok", Len(users) + 1, NULL, NULL)

\* routes/auth.py confirmed_email
confirmed_email_route(token) ==
    LET d == get_email_from_token(token, now)
        id == get_user_by_email(users, d.email)
    IN  /\ UNCHANGED <<clock, issued, lastIssued, inflight>>
        /\ \/ /\ d.status # 200
              /\ last' = Response("confirmed_email", token, d.status, d.detail, 0, NULL, NULL)
              /\ UNCHANGED users
           \/ /\ d.status = 200
              /\ IF id = 0
                 THEN /\ last' = Response("confirmed_email", token, 400, "verification_error", 0, NULL, NULL)
                      /\ UNCHANGED users
                 ELSE IF users[id].confirmed
                 THEN /\ last' = Response("confirmed_email", token, 200, "already_confirmed", id, NULL, NULL)
                      /\ UNCHANGED users
                 ELSE /\ last' = Response("confirmed_email", token, 200, "email_confirmed", id, NULL, NULL)
                      /\ users' = confirmed_email(users, d.email)

\* Mutant: login that looks at the ban before the password.
login_check_ban_first(db, username, password) ==
    LET id == get_user_by_email(db, username)
    IN  IF id = 0 THEN Result(401, "invalid_email", "", 0)
        ELSE IF ~db[id].confirmed THEN Result(401, "email_not_confirmed", "", id)
        ELSE IF db[id].banned THEN Result(403, "banned", "", id)
        ELSE IF ~verify_password(password, db[id].password) THEN Result(401, "invalid_password", "", id)
        ELSE Result(200, "ok", db[id].email, id)

\* routes/auth.py login, lines 49-57: the checks in the order the code makes them
login_check(db, username, password) ==
    LET id == get_user_by_email(db, username)
    IN  IF id = 0 THEN Result(401, "invalid_email", "", 0)
        ELSE IF ~db[id].confirmed THEN Result(401, "email_not_confirmed", "", id)
        ELSE IF ~verify_password(password, db[id].password) THEN Result(401, "invalid_password", "", id)
        ELSE IF db[id].banned THEN Result(403, "banned", "", id)
        ELSE Result(200, "ok", db[id].email, id)

\* routes/auth.py login
login(username, password) ==
    LET c == login_check(users, username, password)
        req == [username |-> username, password |-> password]
        access == create_access_token(c.email, now)
        refresh == create_refresh_token(c.email, now)
    IN  /\ UNCHANGED <<clock, inflight>>
        /\ \/ /\ c.status # 200
              /\ last' = Response("login", req, c.status, c.detail, c.user, NULL, NULL)
              /\ UNCHANGED <<users, issued, lastIssued>>
           \/ /\ c.status = 200
              /\ Room(refresh)
              /\ users' = update_token(users, c.user, refresh)
              /\ issued' = issued \cup {access, refresh}
              /\ lastIssued' = [lastIssued EXCEPT ![c.user] = refresh]
              /\ last' = Response("login", req, 200, "ok", c.user, access, refresh)

\* routes/auth.py refresh_token, lines 75-77: decode the token, load the user row.
\* A subject with no row makes user None and line 78 raise AttributeError.
refresh_read(db, token, t) ==
    LET d == decode_refresh_token(token, t)
        id == get_user_by_email(db, d.email)
    IN  IF d.status # 200 THEN d
        ELSE IF id = 0 THEN Result(500, "AttributeError", d.email, 0)
        ELSE Result(200, "ok", d.email, id)

\* Mutant: refresh without the ban check.
refresh_decide_no_ban(row, token) ==
    IF row.refresh_token # token THEN Result(401, "invalid_refresh_token", row.email, 0)
    ELSE Result(200, "ok", row.email, 0)

\* routes/auth.py refresh_token, lines 78-82, on the row as it was loaded
refresh_decide(row, token) ==
    IF row.refresh_token # token THEN Result(401, "invalid_refresh_token", row.email, 0)
    ELSE IF row.banned THEN Result(403, "banned", row.email, 0)
    ELSE Result(200, "ok", row.email, 0)

\* refresh that clears the stored token before it refuses a banned account
refresh_write_banned_clears(op, id, row, token) ==
    LET c == refresh_decide(row, token)
        access == create_access_token(c.email, now)
        refresh == create_refresh_token(c.email, now)
    IN  \/ /\ c.detail \in {"invalid_refresh_token", "banned"}
           /\ users' = update_token(users, id, NULL)
           /\ last' = Response(op, token, c.status, c.detail, id, NULL, NULL)
           /\ UNCHANGED <<issued, lastIssued>>
        \/ /\ c.status = 200
           /\ Room(refresh)
           /\ users' = update_token(users, id, refresh)
           /\ issued' = issued \cup {access, refresh}
           /\ lastIssued' = [lastIssued EXCEPT ![id] = refresh]
           /\ last' = Response(op, token, 200, "ok", id, access, refresh)

\* routes/auth.py refresh_token, lines 78-87: the writes and the response of a
\* request that loaded `row` (of user `id`) and presents `token`
refresh_write(op, id, row, token) ==
    LET c == refresh_decide(row, token)
        access == create_access_token(c.email, now)
        refresh == create_refresh_token(c.email, now)
    IN  \/ /\ c.detail = "invalid_refresh_token"
           /\ users' = update_token(users, id, NULL)
           /\ last' = Response(op, token, c.status, c.detail, id, NULL, NULL)
           /\ UNCHANGED <<issued, lastIssued>>
        \/ /\ c.detail = "banned"
           /\ last' = Response(op, token, c.status, c.detail, id, NULL, NULL)
           /\ UNCHANGED <<users, issued, lastIssued>>
        \/ /\ c.status = 200
           /\ Room(refresh)
           /\ users' = update_token(users, id, refresh)
           /\ issued' = issued \cup {access, refresh}
           /\ lastIssued' = [lastIssued EXCEPT ![id] = refresh]
           /\ last' = Response(op, token, 200, "ok", id, access, refresh)

\* routes/auth.py refresh_token, run without another request in between
refresh_token(token) ==
    LET r == refresh_read(users, token, now)
    IN  /\ UNCHANGED <<clock, inflight>>
        /\ \/ /\ r.status # 200
              /\ last' = Response("refresh", token, r.status, r.detail, 0, NULL, NULL)
              /\ UNCHANGED <<users, issued, lastIssued>>
           \/ /\ r.status = 200
              /\ refresh_write("refresh", r.user, users[r.user], token)

\* routes/users.py read_users_me: an ordinary authenticated request
read_users_me(token) ==
    LET u == get_current_user(users, token, now)
    IN  /\ last' = Response("read_users_me", token, u.status, u.detail, u.user, NULL, NULL)
        /\ UNCHANGED <<users, clock, issued, lastIssued, inflight>>

\* routes/users.py block_user: RolesAccess([admin]) on the current user, then block
block_user(token, email, banned) ==
    LET u == get_current_user(users, token, now)
        req == [email |-> email, banned |-> banned]
    IN  /\ UNCHANGED <<clock, issued, lastIssued, inflight>>
        /\ \/ /\ u.status # 200
              /\ last' = Response("block_user", req, u.status, u.detail, 0, NULL, NULL)
              /\ UNCHANGED users
           \/ /\ u.status = 200
              /\ u.user # 0
              /\ ~RolesAccess(access_block, users[u.user].role)
              /\ last' = Response("block_user", req, 403, "operation_forbidden", u.user, NULL, NULL)
              /\ UNCHANGED users
           \/ /\ u.status = 200
              /\ u.user # 0
              /\ RolesAccess(access_block, users[u.user].role)
              /\ users' = block(users, email, banned)
              /\ last' = IF get_user_by_email(users, email) = 0
                         THEN Response("block_user", req, 404, "not_found", u.user, NULL, NULL)
                         ELSE Response("block_user", req, 200, "ok", u.user, NULL, NULL)

Next ==
    \/ Tick /\ UNCHANGED galleryVars
    \/ \E e \in Emails, p \in SignupPasswords : signup(e, p) /\ UNCHANGED galleryVars
    \/ \E t \in Presentable : confirmed_email_route(t) /\ UNCHANGED galleryVars
    \/ \E e \in Emails, p \in LoginPasswords : login(e, p) /\ UNCHANGED galleryVars
    \/ \E t \in Presentable : refresh_token(t) /\ UNCHANGED galleryVars
    \/ \E t \in Presentable : read_users_me(t) /\ UNCHANGED galleryVars
    \/ \E t \in Presentable, e \in Emails, b \in BOOLEAN : block_user(t, e, b) /\ UNCHANGED galleryVars

Spec == Init /\ [][Next]_vars

----------------------------------------------------------------------------
(* Refresh requests served by different workers: each request runs in its   *)
(* own database session, so the row it loaded at line 77 is a private copy  *)
(* and its writes (lines 79, 86) land whenever it gets there.               *)

Slots == 1..MaxInflight

\* routes/auth.py refresh_token, lines 75-77: slot s starts a refresh with a
\* token that decodes, and loads the user row.
RefreshBegin(s, token) ==
    LET r == refresh_read(users, token, now)
    IN  /\ inflight[s] = NULL
        /\ r.status = 200
        /\ inflight' = [inflight EXCEPT ![s] =
                [token |-> token, user |-> r.user, row |-> users[r.user], state |-> "read",
                 overlaps |-> {o \in Slots : inflight[o] # NULL /\ inflight[o].state = "read"},
                 status |-> 0, refresh_token |-> NULL]]
        /\ UNCHANGED <<users, clock, issued, lastIssued, last>>

\* routes/auth.py refresh_token, lines 78-87: slot s compares the row it loaded,
\* writes and answers.
RefreshEnd(s) ==
    /\ inflight[s] # NULL
    /\ inflight[s].state = "read"
    /\ refresh_write("refresh", inflight[s].user, inflight[s].row, inflight[s].token)
    /\ inflight' = [inflight EXCEPT ![s].state = "done",
                                    ![s].status = last'.status,
                                    ![s].refresh_token = last'.refresh_token]
    /\ UNCHANGED clock

NextConc ==
    \/ Tick /\ UNCHANGED galleryVars
    \/ \E e \in Emails, p \in SignupPasswords : signup(e, p) /\ UNCHANGED galleryVars
    \/ \E t \in Presentable : confirmed_email_route(t) /\ UNCHANGED galleryVars
    \/ \E e \in Emails, p \in LoginPasswords : login(e, p) /\ UNCHANGED galleryVars
    \/ \E s \in Slots, t \in Presentable : RefreshBegin(s, t) /\ UNCHANGED galleryVars
    \/ \E s \in Slots : RefreshEnd(s) /\ UNCHANGED galleryVars

SpecConc == Init /\ [][NextConc]_vars

----------------------------------------------------------------------------
(* Signup requests served by different workers: each runs in its own        *)
(* database session, so what it read (routes/auth.py line 30,               *)
(* repository/users.py line 31) may be stale when it inserts (lines 38-39). *)

SignupEmails == {"a@x", "b@x", "c@x"}
SigningSlots == 1..MaxSigning

\* User.email is a unique column: an insert of an e-mail that already has a
\* row is refused by the database.
unique_email(db, email) == \A i \in 1..Len(db) : db[i].email # email

\* routes/auth.py signup, lines 30-33, and repository/users.py create_user,
\* line 31: slot s looks the e-mail up, hashes the password and asks whether
\* an admin row exists.
SignupBegin(s, email, password) ==
    /\ signing[s] = NULL
    /\ \/ /\ get_user_by_email(users, email) # 0
          /\ last' = Response("signup", [username |-> email, password |-> password],
                              409, "account_already_exists", 0, NULL, NULL)
          /\ UNCHANGED signing
       \/ /\ get_user_by_email(users, email) = 0
          /\ signing' = [signing EXCEPT ![s] =
                [email |-> email, password |-> get_password_hash(password),
                 admin_exists |-> \E i \in 1..Len(users) : users[i].role = "admin"]]
          /\ UNCHANGED last
    /\ UNCHANGED <<users, images, tags, ratings, comments, nextId>>
    /\ UNCHANGED tokenVars

\* repository/users.py create_user, lines 33-41: slot s inserts the row with
\* the role it decided on and answers.
SignupEnd(s) ==
    LET r == signing[s]
        req == [username |-> r.email, password |-> r.password[2]]
    IN  /\ signing[s] # NULL
        /\ signing' = [signing EXCEPT ![s] = NULL]
        /\ IF unique_email(users, r.email)
           THEN /\ users' = Append(users, [email |-> r.email,
                                           password |-> r.password,
                                           role |-> IF r.admin_exists THEN "user" ELSE "admin",
                                           confirmed |-> FALSE,
                                           banned |-> FALSE,
                                           refresh_token |-> NULL])
                /\ last' = Response("signup", req, 201, "ok", Len(users) + 1, NULL, NULL)
           ELSE /\ last' = Response("signup", req, 500, "IntegrityError", 0, NULL, NULL)
                /\ UNCHANGED users
        /\ UNCHANGED <<images, tags, ratings, comments, nextId>>
        /\ UNCHANGED tokenVars

NextSignup ==
    \/ \E s \in SigningSlots, e \in SignupEmails, p \in SignupPasswords : SignupBegin(s, e, p)
    \/ \E s \in SigningSlots : SignupEnd(s)

SpecSignup == Init /\ [][NextSignup]_vars

----------------------------------------------------------------------------
(* The gallery: images, tags, ratings and comments.  A table is a set of    *)
(* rows, each with the id the autoincrement gave it.  A string that the     *)
(* code cuts, trims or lower-cases is a sequence of one-character strings.  *)

\* Role (src/database/models.py), as the routes list it
Roles == {"admin", "moderator", "user"}

\* The allow-lists the routes declare
ratings_access_get == {"admin", "moderator", "user"}
ratings_access_create == {"admin", "moderator", "user"}
\* Mutant: the rating update allow-list with role user added.
ratings_access_update_with_user == {"admin", "moderator", "user"}
ratings_access_update == {"admin", "moderator"}
ratings_access_delete == {"admin", "moderator"}
tags_access_get == {"admin", "moderator", "user"}
tags_access_update == {"admin", "moderator"}
tags_access_delete == {"admin", "moderator"}
comments_access_delete == {"admin", "moderator"}
access_all == {"admin", "moderator", "user"}
access_admin == {"admin"}

\* A route's response: what was asked, the status and detail answered, the id
\* of the current user (0 when there is none) and the value returned.
Reply(op, req, status, detail, user, result) ==
    [op |-> op, req |-> req, status |-> status, detail |-> detail,
     user |-> user, result |-> result]

\* The dependencies of a protected route: get_current_user, then RolesAccess
\* on the role of the user it returned.
Authorize(allowed_roles, token) ==
    LET u == get_current_user(users, token, now)
    IN  IF u.status # 200 THEN u
        ELSE IF u.user = 0 THEN Result(500, "AttributeError", "", 0)
        ELSE IF ~RolesAccess(allowed_roles, users[u.user].role)
        THEN Result(403, "operation_forbidden", u.email, u.user)
        ELSE u

\* A request that the dependencies refuse: answered, nothing written.
Refused(op, req, a) ==
    /\ a.status # 200
    /\ last' = Reply(op, req, a.status, a.detail, a.user, NULL)
    /\ UNCHANGED <<users, images, tags, ratings, comments, nextId>>

\* The row of a table with the given id, NULL for None
Row(table, id) == IF \E r \in table : r.id = id THEN CHOOSE r \in table : r.id = id ELSE NULL

\* The accounts of a running site: the admin created by the first signup, a
\* moderator (the role is given in the database) and an ordinary user.
GalleryUsers ==
    << [email |-> "a@x", password |-> get_password_hash("pw1"), role |-> "admin",
        confirmed |-> TRUE, banned |-> FALSE, refresh_token |-> NULL],
       [email |-> "m@x", password |-> get_password_hash("pw1"), role |-> "moderator",
        confirmed |-> TRUE, banned |-> FALSE, refresh_token |-> NULL],
       [email |-> "u@x", password |-> get_password_hash("pw1"), role |-> "user",
        confirmed |-> TRUE, banned |-> FALSE, refresh_token |-> NULL] >>

\* The access tokens the three accounts hold.
GalleryTokens == {create_access_token(GalleryUsers[i].email, Timeline[1]) : i \in 1..Len(GalleryUsers)}

\* Those of the moderator and of the user.
MemberTokens == {create_access_token(GalleryUsers[i].email, Timeline[1]) : i \in {2, 3}}

\* Image(...): a row of the images table; tags are the ids of its Tag rows
Image(id, user_id, description, image_tags) ==
    [id |-> id, user_id |-> user_id, description |-> description, tags |-> image_tags]

\* str.lower() on the letters the model uses
LowerChar(c) == CASE c = "A" -> "a" [] c = "B" -> "b" [] OTHER -> c
lower(str) == [i \in 1..Len(str) |-> LowerChar(str[i])]

\* Tag(name=...): a row of the tags table
Tag(id, name) == [id |-> id, name |-> name]

\* Comment(...): a row of the comments table
Comment(id, image_id, user_id, comment) ==
    [id |-> id, image_id |-> image_id, user_id |-> user_id, comment |-> comment]

\* A running site: the three accounts hold their access tokens.
InitSite ==
    /\ users = GalleryUsers
    /\ clock = 1
    /\ issued = GalleryTokens
    /\ lastIssued = [i \in 1..Len(GalleryUsers) |-> NULL]
    /\ inflight = [s \in 1..MaxInflight |-> NULL]
    /\ last = NoRequest
    /\ signing = [s \in 1..MaxSigning |-> NULL]

\* RatingModel: the five star flags
RatingModel(one, two, three, four, five) ==
    [one_star |-> one, two_stars |-> two, three_stars |-> three,
     four_stars |-> four, five_stars |-> five]

\* The selections a client sends: none, single flags, and several at once.
Selections ==
    { RatingModel(FALSE, FALSE, FALSE, FALSE, FALSE),
      RatingModel(TRUE, FALSE, FALSE, FALSE, FALSE),
      RatingModel(FALSE, TRUE, FALSE, FALSE, FALSE),
      RatingModel(TRUE, TRUE, FALSE, FALSE, FALSE) }

\* for el in body: if el[1]: sum_of_rates += 1
sum_of_rates(body) ==
    (IF body.one_star THEN 1 ELSE 0) + (IF body.two_stars THEN 1 ELSE 0)
    + (IF body.three_stars THEN 1 ELSE 0) + (IF body.four_stars THEN 1 ELSE 0)
    + (IF body.five_stars THEN 1 ELSE 0)

\* The star flags of a stored row
Flags(r) == RatingModel(r.one_star, r.two_stars, r.three_stars, r.four_stars, r.five_stars)

\* Rating(...) with the flags of body
Rating(id, image_id, user_id, body) ==
    [id |-> id, image_id |-> image_id, user_id |-> user_id,
     one_star |-> body.one_star, two_stars |-> body.two_stars,
     three_stars |-> body.three_stars, four_stars |-> body.four_stars,
     five_stars |-> body.five_stars]

----------------------------------------------------------------------------
(* src/src/repository/ratings.py and src/src/repository/search.py *)

\* The points one row adds to sum_user_rating: every true flag adds its value.
row_points(element) ==
    (IF element.one_star THEN 1 ELSE 0) + (IF element.two_stars THEN 2 ELSE 0)
    + (IF element.three_stars THEN 3 ELSE 0) + (IF element.four_stars THEN 4 ELSE 0)
    + (IF element.five_stars THEN 5 ELSE 0)

RECURSIVE sum_user_rating(_)
sum_user_rating(image_ratings) ==
    IF image_ratings = {} THEN 0
    ELSE LET element == CHOOSE r \in image_ratings : TRUE
         IN  row_points(element) + sum_user_rating(image_ratings \ {element})

RECURSIVE GCD(_, _)
GCD(a, b) == IF b = 0 THEN a ELSE GCD(b, a % b)

\* Python's a / b on integers, b > 0: the quotient as a fraction in lowest terms.
TrueDiv(a, b) == [num |-> a \div GCD(a, b), den |-> b \div GCD(a, b)]

\* The integer 0 that both averages return for an image without ratings.
Zero == [num |-> 0, den |-> 1]

\* get_average_rating with floor division, sum_user_rating // len(image_ratings)
get_average_rating_floor_div(db_ratings, image_id) ==
    LET image_ratings == {r \in db_ratings : r.image_id = image_id}
    IN  IF Cardinality(image_ratings) = 0 THEN Zero
        ELSE [num |-> sum_user_rating(image_ratings) \div Cardinality(image_ratings), den |-> 1]

\* repository/ratings.py get_average_rating
get_average_rating(db_ratings, image_id) ==
    LET image_ratings == {r \in db_ratings : r.image_id = image_id}
    IN  IF Cardinality(image_ratings) = 0 THEN Zero
        ELSE TrueDiv(sum_user_rating(image_ratings), Cardinality(image_ratings))

\* repository/search.py calc_average_rating: its own loop over the same rows
RECURSIVE calc_sum_user_rating(_)
calc_sum_user_rating(image_ratings) ==
    IF image_ratings = {} THEN 0
    ELSE LET element == CHOOSE r \in image_ratings : TRUE
         IN  calc_sum_user_rating(image_ratings \ {element})
             + (IF element.one_star THEN 1 ELSE 0) + (IF element.two_stars THEN 2 ELSE 0)
             + (IF element.three_stars THEN 3 ELSE 0) + (IF element.four_stars THEN 4 ELSE 0)
             + (IF element.five_stars THEN 5 ELSE 0)

calc_average_rating(db_ratings, image_id) ==
    LET image_ratings == {r \in db_ratings : r.image_id = image_id}
    IN  IF Cardinality(image_ratings) = 0 THEN Zero
        ELSE TrueDiv(calc_sum_user_rating(image_ratings), Cardinality(image_ratings))

\* What a repository call hands back: the table as it is afterwards, the row
\* (or NULL for None) it returns, and the status of the HTTPException it
\* raised (0 when it raised none).
Outcome(table, result, raised) == [table |-> table, result |-> result, raised |-> raised]

\* create_rating without the return for the owner of the image
create_rating_owner_rates(db_images, db_ratings, id, image_id, body, user) ==
    LET image_in_database == Row(db_images, image_id)
        rating_in_database == {r \in db_ratings : r.image_id = image_id /\ r.user_id = user}
    IN  IF image_in_database = NULL THEN Outcome(db_ratings, NULL, 404)
        ELSE IF sum_of_rates(body) # 1 THEN Outcome(db_ratings, NULL, 0)
        ELSE IF rating_in_database # {}
        THEN Outcome(db_ratings,
                     CHOOSE r \in rating_in_database : \A o \in rating_in_database : r.id <= o.id, 0)
        ELSE Outcome(db_ratings \cup {Rating(id, image_id, user, body)},
                     Rating(id, image_id, user, body), 0)

\* create_rating without the query for the rating the user already gave
create_rating_inserts_again(db_images, db_ratings, id, image_id, body, user) ==
    LET image_in_database == Row(db_images, image_id)
    IN  IF image_in_database = NULL THEN Outcome(db_ratings, NULL, 404)
        ELSE IF image_in_database.user_id = user THEN Outcome(db_ratings, NULL, 0)
        ELSE IF sum_of_rates(body) # 1 THEN Outcome(db_ratings, NULL, 0)
        ELSE Outcome(db_ratings \cup {Rating(id, image_id, user, body)},
                     Rating(id, image_id, user, body), 0)

\* repository/ratings.py create_rating
create_rating(db_images, db_ratings, id, image_id, body, user) ==
    LET image_in_database == Row(db_images, image_id)
        rating_in_database == {r \in db_ratings : r.image_id = image_id /\ r.user_id = user}
    IN  IF image_in_database = NULL THEN Outcome(db_ratings, NULL, 404)
        ELSE IF image_in_database.user_id = user THEN Outcome(db_ratings, NULL, 0)
        ELSE IF sum_of_rates(body) # 1 THEN Outcome(db_ratings, NULL, 0)
        ELSE IF rating_in_database # {}
        THEN Outcome(db_ratings,
                     CHOOSE r \in rating_in_database : \A o \in rating_in_database : r.id <= o.id, 0)
        ELSE Outcome(db_ratings \cup {Rating(id, image_id, user, body)},
                     Rating(id, image_id, user, body), 0)

\* update_rating with the test of create_rating, sum_of_rates != 1
update_rating_exactly_one(db_ratings, rating_id, body) ==
    LET rating == Row(db_ratings, rating_id)
    IN  IF sum_of_rates(body) # 1 THEN Outcome(db_ratings, NULL, 0)
        ELSE IF rating = NULL THEN Outcome(db_ratings, NULL, 0)
        ELSE Outcome((db_ratings \ {rating})
                        \cup {Rating(rating.id, rating.image_id, rating.user_id, body)},
                     Rating(rating.id, rating.image_id, rating.user_id, body), 0)

\* repository/ratings.py update_rating
update_rating(db_ratings, rating_id, body) ==
    LET rating == Row(db_ratings, rating_id)
    IN  IF sum_of_rates(body) > 1 THEN Outcome(db_ratings, NULL, 0)
        ELSE IF rating = NULL THEN Outcome(db_ratings, NULL, 0)
        ELSE Outcome((db_ratings \ {rating})
                        \cup {Rating(rating.id, rating.image_id, rating.user_id, body)},
                     Rating(rating.id, rating.image_id, rating.user_id, body), 0)

\* repository/ratings.py remove_rating
remove_rating(db_ratings, rating_id) ==
    LET rating == Row(db_ratings, rating_id)
    IN  IF rating = NULL THEN Outcome(db_ratings, NULL, 0)
        ELSE Outcome(db_ratings \ {rating}, rating, 0)

----------------------------------------------------------------------------
(* src/src/routes/ratings.py *)

\* The id the next inserted rating gets; the run inserts at most MaxRatings.
RatingRoom == nextId.rating <= MaxRatings

\* routes/ratings.py common_image_rating
common_image_rating(token, image_id) ==
    LET a == Authorize(ratings_access_get, token)
        req == [image_id |-> image_id]
    IN  /\ UNCHANGED tokenVars /\ UNCHANGED signing
        /\ \/ Refused("common_image_rating", req, a)
           \/ /\ a.status = 200
              /\ last' = Reply("common_image_rating", req, 200, "ok", a.user,
                               get_average_rating(ratings, image_id))
              /\ UNCHANGED <<users, images, tags, ratings, comments, nextId>>

\* routes/ratings.py create_rate
create_rate(token, image_id, body) ==
    LET a == Authorize(ratings_access_create, token)
        req == [image_id |-> image_id, body |-> body]
        o == create_rating(images, ratings, nextId.rating, image_id, body, a.user)
    IN  /\ UNCHANGED tokenVars /\ UNCHANGED signing
        /\ \/ Refused("create_rate", req, a)
           \/ /\ a.status = 200
              /\ o.table = ratings \/ RatingRoom
              /\ ratings' = o.table
              /\ nextId' = IF o.table = ratings THEN nextId
                           ELSE [nextId EXCEPT !.rating = @ + 1]
              /\ last' = IF o.raised # 0
                         THEN Reply("create_rate", req, o.raised, "Image not found", a.user, NULL)
                         ELSE IF o.result = NULL
                         THEN Reply("create_rate", req, 400, "check the image_id", a.user, NULL)
                         ELSE Reply("create_rate", req, 200, "ok", a.user, o.result)
              /\ UNCHANGED <<users, images, tags, comments>>

\* routes/ratings.py update_rating
update_rating_route(token, rating_id, body) ==
    LET a == Authorize(ratings_access_update, token)
        req == [rating_id |-> rating_id, body |-> body]
        o == update_rating(ratings, rating_id, body)
    IN  /\ UNCHANGED tokenVars /\ UNCHANGED signing
        /\ \/ Refused("update_rating", req, a)
           \/ /\ a.status = 200
              /\ ratings' = o.table
              /\ last' = IF o.result = NULL
                         THEN Reply("update_rating", req, 404, "Rating not found", a.user, NULL)
                         ELSE Reply("update_rating", req, 200, "ok", a.user, o.result)
              /\ UNCHANGED <<users, images, tags, comments, nextId>>

\* routes/ratings.py remove_rating
remove_rating_route(token, rating_id) ==
    LET a == Authorize(ratings_access_delete, token)
        req == [rating_id |-> rating_id]
        o == remove_rating(ratings, rating_id)
    IN  /\ UNCHANGED tokenVars /\ UNCHANGED signing
        /\ \/ Refused("remove_rating", req, a)
           \/ /\ a.status = 200
              /\ ratings' = o.table
              /\ last' = IF o.result = NULL
                         THEN Reply("remove_rating", req, 404, "Rating not found", a.user, NULL)
                         ELSE Reply("remove_rating", req, 200, "ok", a.user, o.result)
              /\ UNCHANGED <<users, images, tags, comments, nextId>>

----------------------------------------------------------------------------
(* src/src/services/images.py: images_service_normalize_tags *)

\* The characters of the strings the model cuts and trims
Chars == {"a", "A", ",", " "}

\* str.split(","): the pieces between the commas, empty pieces included
RECURSIVE split(_)
split(str) ==
    IF \A i \in 1..Len(str) : str[i] # ","
    THEN <<str>>
    ELSE LET k == CHOOSE i \in 1..Len(str) :
                        str[i] = "," /\ \A j \in 1..(i - 1) : str[j] # ","
         IN  <<SubSeq(str, 1, k - 1)>> \o split(SubSeq(str, k + 1, Len(str)))

\* str.strip(): without its leading and trailing whitespace
RECURSIVE strip(_)
strip(str) ==
    IF str = <<>> THEN str
    ELSE IF Head(str) = " " THEN strip(Tail(str))
    ELSE IF str[Len(str)] = " " THEN strip(SubSeq(str, 1, Len(str) - 1))
    ELSE str

\* tag[:n]
cut(str, n) == IF Len(str) > n THEN SubSeq(str, 1, n) ELSE str

\* list(OrderedDict.fromkeys(tags)): the first occurrence of each, in order
RECURSIVE fromkeys(_)
fromkeys(seq) ==
    IF seq = <<>> THEN <<>>
    ELSE LET rest == fromkeys(SubSeq(seq, 1, Len(seq) - 1))
             x == seq[Len(seq)]
         IN  IF \E i \in 1..Len(rest) : rest[i] = x THEN rest ELSE Append(rest, x)

\* [tag[:25].strip() for tag in tag_str.split(",") if tag], for one tag_str
RECURSIVE stripped(_)
stripped(pieces) ==
    IF pieces = <<>> THEN <<>>
    ELSE (IF Head(pieces) # <<>> THEN <<strip(cut(Head(pieces), TagLen))>> ELSE <<>>)
         \o stripped(Tail(pieces))

\* the comprehension over every tag_str of body.tags
RECURSIVE comprehension(_)
comprehension(body_tags) ==
    IF body_tags = <<>> THEN <<>>
    ELSE stripped(split(Head(body_tags))) \o comprehension(Tail(body_tags))

images_service_normalize_tags(body_tags) == fromkeys(comprehension(body_tags))

----------------------------------------------------------------------------
(* normalize_tags applied to the tag lists a client can send *)

\* Strings over Chars of length at most MaxLen
RECURSIVE Strings(_)
Strings(n) ==
    IF n = 0 THEN {<<>>}
    ELSE Strings(n - 1) \cup {Append(str, c) : str \in {x \in Strings(n - 1) : Len(x) = n - 1}, c \in Chars}

\* n times the character c
Repeat(c, n) == [i \in 1..n |-> c]

\* Strings around the cut: up to two characters longer than TagLen, with
\* whitespace or an upper-case letter at either side of the cut
LongStrings ==
    {Repeat("a", n) : n \in (TagLen - 1)..(TagLen + 5)}
    \cup {<<" ">> \o Repeat("a", TagLen), Repeat("a", TagLen - 1) \o <<" ", "a">>,
          Repeat("a", TagLen) \o <<"A">>, Repeat("A", TagLen + 1)}
    \cup {<<"a", ",", "b", ",", "b", ",", "c">>}

\* body.tags: one entry, or two short ones
TagLists ==
    {<<str>> : str \in Strings(MaxLen) \cup LongStrings}
    \cup {<<x, y>> : x \in Strings(2), y \in Strings(1)}

InitNormalize ==
    /\ users = <<>>
    /\ clock = 1
    /\ issued = {}
    /\ lastIssued = [i \in {} |-> NULL]
    /\ inflight = [s \in 1..MaxInflight |-> NULL]
    /\ signing = [s \in 1..MaxSigning |-> NULL]
    /\ images = {}
    /\ tags = {}
    /\ ratings = {}
    /\ comments = {}
    /\ nextId = [image |-> 1, tag |-> 1, rating |-> 1, comment |-> 1]
    /\ \E body_tags \in TagLists : last = Reply("request", body_tags, 0, "", 0, NULL)

normalize_tags ==
    /\ last.op = "request"
    /\ last' = Reply("normalize_tags", last.req, 200, "ok", 0, images_service_normalize_tags(last.req))
    /\ UNCHANGED <<users, images, tags, ratings, comments, nextId, signing>>
    /\ UNCHANGED tokenVars

NextNormalize == normalize_tags

SpecNormalize == InitNormalize /\ [][NextNormalize]_vars

----------------------------------------------------------------------------
(* src/src/repository/images.py and the image routes of src/src/routes/images.py *)

\* What the tag loop of add_image / add_tag carries from one tag to the next.
Loop(db_tags, next_id, image_tags, num_tags) ==
    [tags |-> db_tags, next_id |-> next_id, image_tags |-> image_tags, num_tags |-> num_tags]

\* One pass of the loop body, lines 100-109 (and 167-176): cut to 25, create
\* the Tag row when no row has the lower-cased name, keep the name for the
\* image while fewer than five were counted.
tag_step(l, tag) ==
    LET name == lower(cut(tag, TagLen))
        known == \E t \in l.tags : t.name = name
    IN  Loop(IF known THEN l.tags ELSE l.tags \cup {Tag(l.next_id, name)},
             IF known THEN l.next_id ELSE l.next_id + 1,
             IF l.num_tags < MaxImageTags THEN Append(l.image_tags, name) ELSE l.image_tags,
             l.num_tags + 1)

\* add_image, lines 96-109: every tag of the list goes through the loop body
RECURSIVE add_image_loop(_, _)
add_image_loop(l, tag_list) ==
    IF tag_list = <<>> THEN l
    ELSE add_image_loop(tag_step(l, Head(tag_list)), Tail(tag_list))

\* add_tag, lines 162-176: an empty tag is skipped ("if tag:")
RECURSIVE add_tag_loop(_, _)
add_tag_loop(l, tag_list) ==
    IF tag_list = <<>> THEN l
    ELSE add_tag_loop(IF Head(tag_list) # <<>> THEN tag_step(l, Head(tag_list)) ELSE l,
                      Tail(tag_list))

\* db.query(Tag).filter(Tag.name.in_(image_tags)).all(), as ids
tag_rows(db_tags, image_tags) ==
    {t.id : t \in {t \in db_tags : \E i \in 1..Len(image_tags) : image_tags[i] = t.name}}

\* if num_tags >= 5: detail = "... only five tags ..."
five_tags_detail(num_tags) == IF num_tags >= MaxImageTags THEN "only five tags" ELSE ""

\* What add_image / add_tag hand back: both tables, the image row (NULL when
\* an HTTPException was raised), the detail string and the status raised.
ImageOutcome(db_images, db_tags, next_id, result, detail, raised) ==
    [images |-> db_images, tags |-> db_tags, next_id |-> next_id, result |-> result,
     detail |-> detail, raised |-> raised]

\* repository/images.py add_image
add_image(db_images, db_tags, image_id, tag_id, description, tag_list, user) ==
    LET l == add_image_loop(Loop(db_tags, tag_id, <<>>, 0), tag_list)
        db_image == Image(image_id, user, description, tag_rows(l.tags, l.image_tags))
    IN  ImageOutcome(db_images \cup {db_image}, l.tags, l.next_id, db_image,
                     five_tags_detail(l.num_tags), 0)

\* Mutant: the ownership filter is lifted for the moderator too.
owned_image_moderator_bypass(db_images, db, image_id, user) ==
    IF db[user].role \in {"admin", "moderator"}
    THEN Row(db_images, image_id)
    ELSE Row({i \in db_images : i.user_id = user}, image_id)

\* The image a role may touch: any image for the admin, an own image otherwise
\* (lines 137-140, 183-186, 210-213)
owned_image(db_images, db, image_id, user) ==
    IF db[user].role = "admin"
    THEN Row(db_images, image_id)
    ELSE Row({i \in db_images : i.user_id = user}, image_id)

\* repository/images.py update_image
update_image(db_images, db, image_id, description, user) ==
    LET db_image == owned_image(db_images, db, image_id, user)
    IN  IF db_image = NULL THEN Outcome(db_images, NULL, 404)
        ELSE Outcome((db_images \ {db_image})
                        \cup {Image(db_image.id, db_image.user_id, description, db_image.tags)},
                     Image(db_image.id, db_image.user_id, description, db_image.tags), 0)

\* repository/images.py add_tag: the Tag rows are committed in the loop, before
\* the image is looked up
add_tag(db_images, db_tags, db, tag_id, image_id, body_tags, user) ==
    LET l == add_tag_loop(Loop(db_tags, tag_id, <<>>, 0), images_service_normalize_tags(body_tags))
        image == owned_image(db_images, db, image_id, user)
        tagged == Image(image.id, image.user_id, image.description, tag_rows(l.tags, l.image_tags))
    IN  IF image = NULL
        THEN ImageOutcome(db_images, l.tags, l.next_id, NULL, "", 404)
        ELSE ImageOutcome((db_images \ {image}) \cup {tagged}, l.tags, l.next_id, tagged,
                          five_tags_detail(l.num_tags), 0)

\* repository/images.py delete_image
delete_image(db_images, db, id, user) ==
    LET db_image == owned_image(db_images, db, id, user)
    IN  IF db_image = NULL THEN Outcome(db_images, NULL, 404)
        ELSE Outcome(db_images \ {db_image}, db_image, 0)

\* The run uploads at most MaxImages images.
ImageRoom == nextId.image <= MaxImages

\* routes/images.py upload_image
upload_image(token, body_tags, description) ==
    LET a == Authorize(access_all, token)
        req == [tags |-> body_tags, description |-> description]
        o == add_image(images, tags, nextId.image, nextId.tag, description,
                       images_service_normalize_tags(body_tags), a.user)
    IN  /\ UNCHANGED tokenVars /\ UNCHANGED signing
        /\ \/ Refused("upload_image", req, a)
           \/ /\ a.status = 200
              /\ ImageRoom
              /\ images' = o.images
              /\ tags' = o.tags
              /\ nextId' = [nextId EXCEPT !.image = @ + 1, !.tag = o.next_id]
              /\ last' = Reply("upload_image", req, 201, o.detail, a.user, o.result)
              /\ UNCHANGED <<users, ratings, comments>>

\* routes/images.py update_description
update_description(token, image_id, description) ==
    LET a == Authorize(access_all, token)
        req == [image_id |-> image_id, description |-> description]
        o == update_image(images, users, image_id, description, a.user)
    IN  /\ UNCHANGED tokenVars /\ UNCHANGED signing
        /\ \/ Refused("update_description", req, a)
           \/ /\ a.status = 200
              /\ images' = o.table
              /\ last' = IF o.raised # 0
                         THEN Reply("update_description", req, o.raised, "Image not found", a.user, NULL)
                         ELSE Reply("update_description", req, 200, "ok", a.user, o.result)
              /\ UNCHANGED <<users, tags, ratings, comments, nextId>>

\* routes/images.py add_tag
add_tag_route(token, image_id, body_tags) ==
    LET a == Authorize(access_all, token)
        req == [image_id |-> image_id, tags |-> body_tags]
        o == add_tag(images, tags, users, nextId.tag, image_id, body_tags, a.user)
    IN  /\ UNCHANGED tokenVars /\ UNCHANGED signing
        /\ \/ Refused("add_tag", req, a)
           \/ /\ a.status = 200
              /\ images' = o.images
              /\ tags' = o.tags
              /\ nextId' = [nextId EXCEPT !.tag = o.next_id]
              /\ last' = IF o.raised # 0
                         THEN Reply("add_tag", req, o.raised, "Image not found", a.user, NULL)
                         ELSE Reply("add_tag", req, 200, o.detail, a.user, o.result)
              /\ UNCHANGED <<users, ratings, comments>>

\* routes/images.py delete_image
delete_image_route(token, id) ==
    LET a == Authorize(access_all, token)
        req == [id |-> id]
        o == delete_image(images, users, id, a.user)
    IN  /\ UNCHANGED tokenVars /\ UNCHANGED signing
        /\ \/ Refused("delete_image", req, a)
           \/ /\ a.status = 200
              /\ images' = o.table
              /\ last' = IF o.raised # 0
                         THEN Reply("delete_image", req, o.raised, "Image not found", a.user, NULL)
                         ELSE Reply("delete_image", req, 200, "ok", a.user, o.result)
              /\ UNCHANGED <<users, tags, ratings, comments, nextId>>

----------------------------------------------------------------------------
(* Who may change an image: the moderator and the user upload images, and  *)
(* the three accounts update, tag and delete their own and each other's.    *)

Descriptions == {"d1"}
OwnershipTags == {<< <<"a">> >>}

InitGallery ==
    /\ InitSite
    /\ images = {}
    /\ tags = {}
    /\ ratings = {}
    /\ comments = {}
    /\ nextId = [image |-> 1, tag |-> 1, rating |-> 1, comment |-> 1]

NextOwnership ==
    \/ \E t \in MemberTokens : upload_image(t, << <<"b">> >>, "d0")
    \/ \E t \in GalleryTokens, i \in 1..MaxImages, d \in Descriptions : update_description(t, i, d)
    \/ \E t \in GalleryTokens, i \in 1..MaxImages, b \in OwnershipTags : add_tag_route(t, i, b)
    \/ \E t \in GalleryTokens, i \in 1..MaxImages : delete_image_route(t, i)

SpecOwnership == InitGallery /\ [][NextOwnership]_vars

----------------------------------------------------------------------------
(* The ratings of a running site: the three accounts hold access tokens and *)
(* two images have been uploaded, one by the user and one by the admin.     *)

RatedImages == {Image(1, 3, "d0", {}), Image(2, 1, "d0", {})}

\* Ids a client may name
ImageIds == 1..3
RatingIds == 1..MaxRatings

InitRatings ==
    /\ InitSite
    /\ images = RatedImages
    /\ tags = {}
    /\ ratings = {}
    /\ comments = {}
    /\ nextId = [image |-> 3, tag |-> 1, rating |-> 1, comment |-> 1]

\* The clients that rate: the moderator and the user.
RatingTokens == MemberTokens

NextRatings ==
    \/ \E t \in RatingTokens, i \in ImageIds, b \in Selections : create_rate(t, i, b)
    \/ \E t \in RatingTokens, r \in RatingIds, b \in Selections : update_rating_route(t, r, b)
    \/ \E t \in RatingTokens, r \in RatingIds : remove_rating_route(t, r)

SpecRatings == InitRatings /\ [][NextRatings]_vars

----------------------------------------------------------------------------
(* src/src/repository/tags.py, src/src/routes/tags.py,                      *)
(* src/src/repository/comments.py, src/src/routes/comments_routes.py and    *)
(* the admin listing of src/src/routes/images.py                            *)

\* update_tag without the query for a row that already has the new name
update_tag_name_in_use(db_tags, tag_id, name) ==
    LET tag == Row(db_tags, tag_id)
    IN  IF tag = NULL THEN Outcome(db_tags, NULL, 0)
        ELSE Outcome((db_tags \ {tag}) \cup {Tag(tag.id, lower(name))}, Tag(tag.id, lower(name)), 0)

\* repository/tags.py update_tag
update_tag(db_tags, tag_id, name) ==
    LET tag == Row(db_tags, tag_id)
    IN  IF tag = NULL THEN Outcome(db_tags, NULL, 0)
        ELSE IF \E t \in db_tags : t.name = lower(name) THEN Outcome(db_tags, NULL, 0)
        ELSE Outcome((db_tags \ {tag}) \cup {Tag(tag.id, lower(name))}, Tag(tag.id, lower(name)), 0)

\* repository/tags.py remove_tag
remove_tag(db_tags, tag_id) ==
    LET tag == Row(db_tags, tag_id)
    IN  IF tag = NULL THEN Outcome(db_tags, NULL, 0)
        ELSE Outcome(db_tags \ {tag}, tag, 0)

\* The images table once the rows that tie a deleted tag to images are gone.
untag(db_images, tag_id) ==
    {Image(i.id, i.user_id, i.description, i.tags \ {tag_id}) : i \in db_images}

\* repository/comments.py remove_comment
remove_comment(db_comments, comment_id) ==
    LET comment == Row(db_comments, comment_id)
    IN  IF comment = NULL THEN Outcome(db_comments, NULL, 0)
        ELSE Outcome(db_comments \ {comment}, comment, 0)

\* repository/images.py admin_get_image: the images of one user, each with its
\* average rating and its owner's comments on it
admin_get_image(db_images, db_ratings, db_comments, user_id) ==
    LET user_images == {i \in db_images : i.user_id = user_id}
    IN  IF user_images = {} THEN Outcome(db_images, NULL, 404)
        ELSE Outcome(db_images,
                     {[image |-> i.id,
                       ratings |-> get_average_rating(db_ratings, i.id),
                       comments |-> {c.id : c \in {c \in db_comments :
                                        c.image_id = i.id /\ c.user_id = i.user_id}}]
                        : i \in user_images}, 0)

\* routes/tags.py update_tag; TagModel refuses a name longer than max_length
update_tag_route(token, tag_id, name) ==
    LET a == Authorize(tags_access_update, token)
        req == [tag_id |-> tag_id, name |-> name]
        o == update_tag(tags, tag_id, name)
    IN  /\ UNCHANGED tokenVars /\ UNCHANGED signing
        /\ \/ Refused("update_tag", req, a)
           \/ /\ a.status = 200
              /\ IF Len(name) > max_length
                 THEN /\ last' = Reply("update_tag", req, 422, "validation", a.user, NULL)
                      /\ UNCHANGED tags
                 ELSE /\ tags' = o.table
                      /\ last' = IF o.result = NULL
                                 THEN Reply("update_tag", req, 404, "Tag not found or exists", a.user, NULL)
                                 ELSE Reply("update_tag", req, 200, "ok", a.user, o.result)
              /\ UNCHANGED <<users, images, ratings, comments, nextId>>

\* routes/tags.py remove_tag
remove_tag_route(token, tag_id) ==
    LET a == Authorize(tags_access_delete, token)
        req == [tag_id |-> tag_id]
        o == remove_tag(tags, tag_id)
    IN  /\ UNCHANGED tokenVars /\ UNCHANGED signing
        /\ \/ Refused("remove_tag", req, a)
           \/ /\ a.status = 200
              /\ tags' = o.table
              /\ images' = IF o.result = NULL THEN images ELSE untag(images, tag_id)
              /\ last' = IF o.result = NULL
                         THEN Reply("remove_tag", req, 404, "Tag not found", a.user, NULL)
                         ELSE Reply("remove_tag", req, 200, "ok", a.user, o.result)
              /\ UNCHANGED <<users, ratings, comments, nextId>>

\* routes/comments_routes.py remove_comment
remove_comment_route(token, comment_id) ==
    LET a == Authorize(comments_access_delete, token)
        req == [comment_id |-> comment_id]
        o == remove_comment(comments, comment_id)
    IN  /\ UNCHANGED tokenVars /\ UNCHANGED signing
        /\ \/ Refused("remove_comment", req, a)
           \/ /\ a.status = 200
              /\ comments' = o.table
              /\ last' = IF o.result = NULL
                         THEN Reply("remove_comment", req, 404, "No such comment", a.user, NULL)
                         ELSE Reply("remove_comment", req, 200, "ok", a.user, o.result)
              /\ UNCHANGED <<users, images, tags, ratings, nextId>>

\* routes/images.py admin_get_images
admin_get_images(token, user_id) ==
    LET a == Authorize(access_admin, token)
        req == [user_id |-> user_id]
        o == admin_get_image(images, ratings, comments, user_id)
    IN  /\ UNCHANGED tokenVars /\ UNCHANGED signing
        /\ \/ Refused("admin_get_images", req, a)
           \/ /\ a.status = 200
              /\ last' = IF o.raised # 0
                         THEN Reply("admin_get_images", req, o.raised, "Image not found", a.user, NULL)
                         ELSE Reply("admin_get_images", req, 200, "ok", a.user, o.result)
              /\ UNCHANGED <<users, images, tags, ratings, comments, nextId>>

----------------------------------------------------------------------------
(* The protected routes on a running site: the user has uploaded an image   *)
(* with two tags, the admin has rated it and the moderator commented on it. *)
(* A client names a row that exists (id 1) or one that does not (id 2; for  *)
(* tags, id 3).                                                             *)

TagNames == {<<"b">>, <<"A">>, <<"c">>}
TagIds == {1, 3}
CommentIds == 1..2

InitAccess ==
    /\ InitSite
    /\ images = {Image(1, 3, "d0", {1, 2})}
    /\ tags = {Tag(1, <<"a">>), Tag(2, <<"b">>)}
    /\ ratings = {Rating(1, 1, 1, RatingModel(TRUE, FALSE, FALSE, FALSE, FALSE))}
    /\ comments = {Comment(1, 1, 2, "c0")}
    /\ nextId = [image |-> 2, tag |-> 3, rating |-> 2, comment |-> 2]

NextAccess ==
    \/ \E t \in GalleryTokens, r \in RatingIds, b \in Selections : update_rating_route(t, r, b)
    \/ \E t \in GalleryTokens, r \in RatingIds : remove_rating_route(t, r)
    \/ \E t \in GalleryTokens, i \in TagIds, n \in TagNames : update_tag_route(t, i, n)
    \/ \E t \in GalleryTokens, i \in TagIds : remove_tag_route(t, i)
    \/ \E t \in GalleryTokens, c \in CommentIds : remove_comment_route(t, c)
    \/ \E t \in GalleryTokens, b \in BOOLEAN : block_user(t, "u@x", b) /\ UNCHANGED galleryVars
    \/ \E t \in GalleryTokens, u \in {1, 3} : admin_get_images(t, u)

SpecAccess == InitAccess /\ [][NextAccess]_vars

----------------------------------------------------------------------------
(* Vocabulary of the claims *)

UserIds == 1..Len(users)

Signed(token) == token.sig = SECRET_KEY
Unexpired(token) == ~(token.exp < now)
ScopeIs(token, scope) == HasScope(token) /\ token.scope = scope

\* A step that serves a request of kind op: every request sets `last` to its
\* response, and only Tick moves the clock.
RequestStep(op) == clock' = clock /\ last'.op = op

\* The error kinds of the specification, read off a response.
InvalidCredentials(r) == r.status = 401 /\ r.detail \in {"invalid_email", "invalid_password"}
EmailNotConfirmed(r) == r.status = 401 /\ r.detail = "email_not_confirmed"
Banned(r) == r.status = 403 /\ r.detail = "banned"
ReuseDetected(r) == r.status = 401 /\ r.detail = "invalid_refresh_token"

----------------------------------------------------------------------------
\* C1: a successful refresh returns a new access+refresh pair, stores the new
\* refresh token in Account.refresh_token, and the refresh token it was
\* given is no longer the stored one (so it is not accepted again).
C1_RotationInvalidatesOld ==
    (last.op = "refresh" /\ last.status = 200) =>
        /\ last.access_token # NULL
        /\ users[last.user].refresh_token = last.refresh_token
        /\ last.refresh_token # last.req

\* C2: (a) a refresh presenting a correctly signed, unexpired refresh-scope
\* token that differs from the stored one sets the stored token to NULL and
\* fails with ReuseDetected; (b) while the stored token is NULL every refresh
\* for that account fails, whatever token it presents; (c) a NULL stored token
\* becomes non-NULL only by a successful login.
C2_Mismatch ==
    LET t == last'.req
        id == get_user_by_email(users, t.sub)
    IN  (/\ Signed(t) /\ Unexpired(t) /\ ScopeIs(t, "refresh_token")
         /\ id # 0
         /\ users[id].refresh_token # t)
        => /\ users'[id].refresh_token = NULL
           /\ ReuseDetected(last')
           /\ last'.refresh_token = NULL

C2_Poisoned ==
    LET t == last'.req
        id == get_user_by_email(users, t.sub)
    IN  (id # 0 /\ users[id].refresh_token = NULL)
        => /\ last'.status # 200
           /\ last'.refresh_token = NULL
           /\ users'[id].refresh_token = NULL

C2_OnlyLoginRestores ==
    \A id \in UserIds :
        (users[id].refresh_token = NULL /\ users'[id].refresh_token # NULL)
        => (last'.op = "login" /\ last'.status = 200 /\ last'.user = id)

----------------------------------------------------------------------------
\* C3: of two refresh requests that present the same stored refresh token and
\* overlap (one loaded the row before the other wrote), at most one succeeds
\* and obtains a new token pair.
C3_AtMostOneConcurrentRefresh ==
    \A s1 \in Slots : \A s2 \in Slots \ {s1} :
        (/\ inflight[s1] # NULL /\ inflight[s2] # NULL
         /\ inflight[s1].state = "done" /\ inflight[s2].state = "done"
         /\ s1 \in inflight[s2].overlaps
         /\ inflight[s1].token = inflight[s2].token
         /\ inflight[s1].row.refresh_token = inflight[s1].token)
        => ~(/\ inflight[s1].status = 200 /\ inflight[s1].refresh_token # inflight[s1].token
             /\ inflight[s2].status = 200 /\ inflight[s2].refresh_token # inflight[s2].token)

----------------------------------------------------------------------------
\* C4: login answers with the error of the first failing check, in the order
\* no account -> InvalidCredentials, not confirmed -> EmailNotConfirmed, wrong
\* password -> InvalidCredentials, banned -> Banned; tokens are returned only
\* when all four checks pass.  (A login changes neither the e-mail, the
\* password, the confirmed nor the banned column, so the row after the request
\* is the row the checks saw.)
C4_LoginCheckOrder ==
    last.op = "login" =>
        LET id == get_user_by_email(users, last.req.username)
            pwOk == verify_password(last.req.password, users[id].password)
        IN  /\ id = 0 => InvalidCredentials(last)
            /\ (id # 0 /\ ~users[id].confirmed) => EmailNotConfirmed(last)
            /\ (id # 0 /\ users[id].confirmed /\ ~pwOk) => InvalidCredentials(last)
            /\ (id # 0 /\ users[id].confirmed /\ pwOk /\ users[id].banned) => Banned(last)
            /\ (last.access_token # NULL \/ last.refresh_token # NULL) =>
                    /\ last.status = 200
                    /\ id # 0 /\ users[id].confirmed /\ pwOk /\ ~users[id].banned

\* C4 witness: a confirmed, banned account logs in with a wrong password and
\* is told InvalidCredentials, not Banned.
C4_Witness ==
    /\ last.op = "login"
    /\ last.user # 0
    /\ users[last.user].confirmed
    /\ users[last.user].banned
    /\ ~verify_password(last.req.password, users[last.user].password)
    /\ InvalidCredentials(last)

----------------------------------------------------------------------------
----------------------------------------------------------------------------
\* C6: no login and no refresh returns tokens for a banned account: a login
\* with the right password is refused with Banned, a refresh presenting the
\* stored refresh token is refused with Banned.  (Login and refresh do not
\* change the banned column.)
C6_BanGate ==
    /\ (last.op \in {"login", "refresh"} /\ last.user # 0 /\ users[last.user].banned) =>
            /\ last.status # 200
            /\ last.access_token = NULL
            /\ last.refresh_token = NULL
    /\ (/\ last.op = "login"
        /\ last.user # 0
        /\ users[last.user].banned
        /\ users[last.user].confirmed
        /\ verify_password(last.req.password, users[last.user].password)) => Banned(last)
    /\ (/\ last.op = "refresh"
        /\ Signed(last.req) /\ Unexpired(last.req) /\ ScopeIs(last.req, "refresh_token")
        /\ get_user_by_email(users, last.req.sub) # 0
        /\ users[get_user_by_email(users, last.req.sub)].banned
        /\ users[get_user_by_email(users, last.req.sub)].refresh_token = last.req) => Banned(last)

\* C6 witness: a refresh presenting the stored token of a banned account has
\* just been refused with Banned.
C6_Witness ==
    /\ last.op = "refresh"
    /\ Banned(last)
    /\ users[last.user].banned
    /\ users[last.user].refresh_token = last.req

----------------------------------------------------------------------------
\* C7: access-token verification does not read Account.banned: it answers the
\* same for every presentable token whether or not accounts are banned, and a
\* correctly signed, unexpired access token of a banned account still
\* verifies to that account on an ordinary authenticated request.
Unbanned(db) == [i \in 1..Len(db) |-> [db[i] EXCEPT !.banned = FALSE]]

C7_BanNotCheckedOnAccess ==
    /\ \A t \in Presentable :
            get_current_user(users, t, now) = get_current_user(Unbanned(users), t, now)
    /\ (/\ last.op = "read_users_me"
        /\ Signed(last.req) /\ Unexpired(last.req) /\ ScopeIs(last.req, "access_token")) =>
            /\ last.status = 200
            /\ last.user # 0
            /\ users[last.user].email = last.req.sub

\* C7 witness: an ordinary authenticated request has just succeeded for a
\* banned account.
C7_Witness ==
    /\ last.op = "read_users_me"
    /\ last.status = 200
    /\ last.user # 0
    /\ users[last.user].banned

----------------------------------------------------------------------------
\* C8: access-token verification accepts a token exactly when it is correctly
\* signed, unexpired and of scope access, and then yields the token's
\* subject; decode_refresh_token accepts a token exactly when it is correctly
\* signed, unexpired and of scope refresh.
RefreshDecoded(r) == r.detail \in {"ok", "invalid_refresh_token", "banned"}

C8_ScopeSeparation ==
    /\ last.op = "read_users_me" =>
            /\ last.status = 200 <=>
                    (Signed(last.req) /\ Unexpired(last.req) /\ ScopeIs(last.req, "access_token"))
            /\ last.status = 200 => users[last.user].email = last.req.sub
    /\ last.op = "refresh" =>
            (RefreshDecoded(last) <=>
                    (Signed(last.req) /\ Unexpired(last.req) /\ ScopeIs(last.req, "refresh_token")))
    /\ \A t \in Presentable :
            /\ decode_refresh_token(t, now).status = 200 <=>
                    (Signed(t) /\ Unexpired(t) /\ ScopeIs(t, "refresh_token"))
            /\ decode_refresh_token(t, now).status = 200 =>
                    decode_refresh_token(t, now).email = t.sub

\* C8 witness: a correctly signed, unexpired access token was presented to the
\* refresh exchange and refused.
C8_Witness ==
    /\ last.op = "refresh"
    /\ Signed(last.req) /\ Unexpired(last.req) /\ ScopeIs(last.req, "access_token")
    /\ last.status = 401
    /\ last.refresh_token = NULL

----------------------------------------------------------------------------
\* C9 as stated: access-token verification answers an expired token, a badly
\* signed token and a refresh-scope token with three distinguishable errors;
\* in particular a wrong-scope failure differs from the answer any expired or
\* badly signed presentable token gets.
C9_KindsDistinguishable ==
    (/\ last.op = "read_users_me"
     /\ Signed(last.req) /\ Unexpired(last.req) /\ ScopeIs(last.req, "refresh_token")) =>
        \A t \in Presentable :
            (~Signed(t) \/ ~Unexpired(t)) =>
                <<get_current_user(users, t, now).status, get_current_user(users, t, now).detail>>
                    # <<last.status, last.detail>>

\* C9 amended: access-token verification answers a token past its expiry, a
\* token with an invalid signature and a correctly signed, unexpired token of
\* scope refresh with one and the same error, 401
\* could_not_validate_credentials.
C9_OneCredentialsError ==
    (/\ last.op = "read_users_me"
     /\ \/ ~Signed(last.req)
        \/ ~Unexpired(last.req)
        \/ ScopeIs(last.req, "refresh_token")) =>
            /\ last.status = 401
            /\ last.detail = "could_not_validate_credentials"
            /\ last.user = 0

\* C9 witness: a correctly signed, unexpired refresh token was presented as an
\* access credential and refused.
C9_Witness ==
    /\ last.op = "read_users_me"
    /\ Signed(last.req) /\ Unexpired(last.req) /\ ScopeIs(last.req, "refresh_token")
    /\ last.status = 401

----------------------------------------------------------------------------
\* C10: confirmed never goes from true to false; it goes from false to true
\* only in a confirmed_email request that succeeds with a correctly signed,
\* unexpired token whose subject is that account's e-mail; confirmed_email on
\* an already confirmed account succeeds and changes no row.
C10_Step ==
    /\ \A id \in UserIds :
            /\ users[id].confirmed => users'[id].confirmed
            /\ (~users[id].confirmed /\ users'[id].confirmed) =>
                    /\ RequestStep("confirmed_email")
                    /\ last'.status = 200
                    /\ Signed(last'.req) /\ Unexpired(last'.req)
                    /\ last'.req.sub = users[id].email
    /\ Len(users') >= Len(users)
    /\ (/\ RequestStep("confirmed_email")
        /\ Signed(last'.req) /\ Unexpired(last'.req)
        /\ get_user_by_email(users, last'.req.sub) # 0
        /\ users[get_user_by_email(users, last'.req.sub)].confirmed) =>
            /\ last'.status = 200
            /\ users' = users

\* C10: every step keeps confirmed accounts confirmed, confirms an account
\* only through a successful confirmed_email for its own e-mail, and leaves
\* the rows alone when the account was already confirmed.
C10_ConfirmedMonotone == [][C10_Step]_vars

\* C10 witness: confirmed_email has just been served for an account that was
\* already confirmed.
C10_Witness ==
    /\ last.op = "confirmed_email"
    /\ last.status = 200
    /\ last.detail = "already_confirmed"
    /\ users[last.user].confirmed

----------------------------------------------------------------------------
\* C11: after any interleaving of signup requests from the empty system,
\* once an account exists exactly one account has role admin, it is the first
\* one created, and every other account has role user.
C11_OneAdmin ==
    Len(users) > 0 =>
        /\ users[1].role = "admin"
        /\ \A i \in 2..Len(users) : users[i].role = "user"

----------------------------------------------------------------------------
\* The allow-lists as the claim states them, per protected operation.
C12_AllowList ==
    [update_rating |-> {"admin", "moderator"}, remove_rating |-> {"admin", "moderator"},
     update_tag |-> {"admin", "moderator"}, remove_tag |-> {"admin", "moderator"},
     remove_comment |-> {"admin", "moderator"},
     block_user |-> {"admin"}, admin_get_images |-> {"admin"}]

Forbidden(r) == r.status = 403 /\ r.detail = "operation_forbidden"

C12_Step ==
    (last'.op \in DOMAIN C12_AllowList /\ last'.user # 0) =>
        /\ Forbidden(last') <=> users[last'.user].role \notin C12_AllowList[last'.op]
        /\ Forbidden(last') => UNCHANGED <<users, images, tags, ratings, comments, nextId>>

\* C12: a protected operation is refused as forbidden exactly when the role of
\* the principal is not in that operation's allow-list (no hierarchy: user is
\* refused where the list is {admin, moderator}, user and moderator where it is
\* {admin}), and a refused request changes no table.
C12_AuthorizeByAllowList == [][C12_Step]_vars

\* C12 witness: the moderator has just been refused the admin's image listing.
C12_Witness ==
    /\ last.op = "admin_get_images"
    /\ Forbidden(last)
    /\ last.user # 0
    /\ users[last.user].role = "moderator"
    /\ ratings = {}
    /\ \E u \in 1..Len(users) : users[u].banned

----------------------------------------------------------------------------
(* normalize_tags as the claim states it *)

RECURSIVE C19_trimmed(_)
C19_trimmed(pieces) ==
    IF pieces = <<>> THEN <<>>
    ELSE (IF strip(Head(pieces)) # <<>>
          THEN <<lower(cut(strip(Head(pieces)), 25))>> ELSE <<>>)
         \o C19_trimmed(Tail(pieces))

RECURSIVE C19_tokens(_)
C19_tokens(body_tags) ==
    IF body_tags = <<>> THEN <<>>
    ELSE C19_trimmed(split(Head(body_tags))) \o C19_tokens(Tail(body_tags))

C19_normalize(body_tags) == fromkeys(C19_tokens(body_tags))

\* C19: for every input list normalize_tags returns: split each entry on
\* commas, trim each token, drop the empty ones, truncate to 25 characters,
\* lower-case, then remove duplicates keeping the first occurrence.
C19_NormalizeTags ==
    last.op = "normalize_tags" => last.result = C19_normalize(last.req)

----------------------------------------------------------------------------
ImageChanges == {"update_description", "add_tag", "delete_image"}

\* The image a change request names, as it was before the request.
C13_Target == Row(images, IF last'.op = "delete_image" THEN last'.req.id ELSE last'.req.image_id)

\* A change request on an existing image has just been served.
C13_Served == last'.op \in ImageChanges /\ last'.user # 0 /\ C13_Target # NULL

C13_Changed == last'.status = 200 /\ images' # images

\* C13 as stated: a user changes an image only when it is the owner; a
\* moderator or an admin changes any image.
C13_ModeratorBypass ==
    [][C13_Served =>
        /\ users[last'.user].role = "user" =>
                (last'.status = 200 <=> C13_Target.user_id = last'.user)
        /\ users[last'.user].role \in {"moderator", "admin"} => last'.status = 200]_vars

\* C13 amended: a user or a moderator changes an image only when it is the
\* owner, an admin changes any image; a request that is turned down answers
\* 404 and leaves the images as they were.
C13_AdminBypass ==
    [][C13_Served =>
        /\ last'.status = 200 <=>
                (users[last'.user].role = "admin" \/ C13_Target.user_id = last'.user)
        /\ last'.status # 200 => (last'.status = 404 /\ images' = images)
        /\ last'.status = 200 /\ last'.op = "delete_image" => images' = images \ {C13_Target}
        /\ last'.status = 200 /\ last'.op # "delete_image" =>
                /\ last'.result.id = C13_Target.id
                /\ images' = (images \ {C13_Target}) \cup {last'.result}]_vars

\* C13 witness: the moderator has just been turned down on an image of the
\* user, and the admin's image is gone.
C13_Witness ==
    /\ last.op = "update_description"
    /\ last.status = 404
    /\ last.user # 0
    /\ users[last.user].role = "moderator"
    /\ \E i \in images : i.id = last.req.image_id /\ users[i.user_id].role = "user"

----------------------------------------------------------------------------
(* Ratings: who may rate, how often, and with what *)

\* The owner of the image a rating row is about, 0 when the image is gone
OwnerOf(image_id) ==
    IF Row(images, image_id) = NULL THEN 0 ELSE Row(images, image_id).user_id

\* The request was served by the route: the dependencies let it through.
Served(r) == r.user # 0 /\ r.status \notin {401, 403, 500}

\* C14: after any sequence of create_rating, update_rating and remove_rating
\* calls no Rating row exists whose user is the owner of the rated image.
C14_OwnerNeverRates ==
    \A r \in ratings : r.user_id # OwnerOf(r.image_id)

\* The owner asked to rate their own image with a valid selection and got no row.
C14_Witness ==
    /\ last.op = "create_rate" /\ Served(last)
    /\ OwnerOf(last.req.image_id) = last.user
    /\ sum_of_rates(last.req.body) = 1
    /\ last.result = NULL
    /\ ratings # {}

\* At most one Rating row per (user, image)
OnePerPair(db_ratings) ==
    \A r, o \in db_ratings : (r.user_id = o.user_id /\ r.image_id = o.image_id) => r = o

\* A create_rating step by a non-owner with exactly one true flag: the first
\* one inserts a row with the selection, a later one returns the existing row
\* and leaves the table as it is.
C15_Step ==
    LET r == last'
        mine == {x \in ratings : x.user_id = r.user /\ x.image_id = r.req.image_id}
    IN  (/\ r.op = "create_rate" /\ Served(r)
         /\ OwnerOf(r.req.image_id) \notin {0, r.user}
         /\ sum_of_rates(r.req.body) = 1)
        => /\ r.status = 200
           /\ IF mine = {}
              THEN /\ ratings' = ratings \cup {r.result}
                   /\ r.result \notin ratings
                   /\ r.result.user_id = r.user
                   /\ r.result.image_id = r.req.image_id
                   /\ Flags(r.result) = r.req.body
              ELSE /\ r.result \in mine
                   /\ ratings' = ratings

\* C15: there is at most one Rating row per (user, image); the first valid
\* create_rating by a non-owner inserts a row, every later one by the same
\* user for the same image returns the existing row unchanged and inserts
\* nothing.
C15_OneRatingPerPair == [][C15_Step /\ OnePerPair(ratings')]_vars

\* A valid create_rating was answered with a row that was there before, with
\* flags other than the ones just sent.
C15_Witness ==
    /\ last.op = "create_rate" /\ last.status = 200
    /\ last.result \in ratings
    /\ Flags(last.result) # last.req.body
    /\ sum_of_rates(last.req.body) = 1

\* C16: in every reachable state every stored Rating row has exactly one of
\* its five star flags true.
C16_ExactlyOneFlag ==
    \A r \in ratings : sum_of_rates(Flags(r)) = 1

\* An update_rating step: more than one true flag fails and leaves the table
\* alone; zero or one true flag on an existing id overwrites the five flags
\* of that row; an unknown id changes nothing and returns no row.
C17_Step ==
    LET r == last'
        rating == Row(ratings, r.req.rating_id)
    IN  (r.op = "update_rating" /\ Served(r))
        => IF sum_of_rates(r.req.body) > 1
           THEN r.status = 404 /\ r.result = NULL /\ ratings' = ratings
           ELSE IF rating = NULL
           THEN r.status = 404 /\ r.result = NULL /\ ratings' = ratings
           ELSE /\ r.status = 200
                /\ Flags(r.result) = r.req.body
                /\ r.result = [rating EXCEPT !.one_star = r.req.body.one_star,
                                              !.two_stars = r.req.body.two_stars,
                                              !.three_stars = r.req.body.three_stars,
                                              !.four_stars = r.req.body.four_stars,
                                              !.five_stars = r.req.body.five_stars]
                /\ ratings' = (ratings \ {rating}) \cup {r.result}

\* C17: update_rating fails on more than one true flag, overwrites the flags
\* of an existing row with a selection of zero or one true flag, and changes
\* nothing for an unknown rating id.
C17_UpdateRating == [][C17_Step]_vars

\* A zero-flag selection was written over an existing row.
C17_Witness ==
    /\ last.op = "update_rating" /\ last.status = 200
    /\ sum_of_rates(last.req.body) = 0
    /\ last.result \in ratings
    /\ sum_of_rates(Flags(last.result)) = 0

----------------------------------------------------------------------------
(* The average rating of an image, over the rating tables the site can hold *)

\* repository/search.py find_image_by_tag, filter_type "r": the pair
\* (x.id, calc_average_rating(x.id, db)) it builds for an image it found.
images_rating_list(token, image_id) ==
    LET a == Authorize(tags_access_get, token)
        req == [image_id |-> image_id]
    IN  /\ UNCHANGED tokenVars /\ UNCHANGED signing
        /\ \/ Refused("images_rating_list", req, a)
           \/ /\ a.status = 200
              /\ last' = Reply("images_rating_list", req, 200, "ok", a.user,
                               calc_average_rating(ratings, image_id))
              /\ UNCHANGED <<users, images, tags, ratings, comments, nextId>>

\* The flags a stored row can carry: one star flag, or none after an update
\* with an empty selection.
StoredFlags ==
    { RatingModel(a = 1, a = 2, a = 3, a = 4, a = 5) : a \in 0..5 }

\* The (rating id, user, image) of the rows the three accounts can hold for
\* the images of RatedImages: nobody rates their own image.
RatingSlots == { <<1, 1, 1>>, <<2, 2, 1>>, <<3, 2, 2>> }

\* Every table of ratings over those slots
RatingTables ==
    { { Rating(s[1], s[3], s[2], f[s]) : s \in S } :
        f \in [RatingSlots -> StoredFlags], S \in SUBSET RatingSlots }

InitAverage ==
    /\ InitSite
    /\ images = RatedImages
    /\ tags = {}
    /\ ratings \in RatingTables
    /\ comments = {}
    /\ nextId = [image |-> 3, tag |-> 1, rating |-> 4, comment |-> 1]

NextAverage ==
    \/ \E t \in RatingTokens, i \in ImageIds : common_image_rating(t, i)
    \/ \E t \in RatingTokens, i \in ImageIds : images_rating_list(t, i)

SpecAverage == InitAverage /\ [][NextAverage]_vars

\* The rows of an image
RowsOf(image_id) == {r \in ratings : r.image_id = image_id}

\* The star values of the rows of an image, added up flag by flag
StarTotal(image_id) ==
    1 * Cardinality({r \in RowsOf(image_id) : r.one_star})
    + 2 * Cardinality({r \in RowsOf(image_id) : r.two_stars})
    + 3 * Cardinality({r \in RowsOf(image_id) : r.three_stars})
    + 4 * Cardinality({r \in RowsOf(image_id) : r.four_stars})
    + 5 * Cardinality({r \in RowsOf(image_id) : r.five_stars})

\* q is the sum of the star values divided by the number of rows, 0 without rows
IsAverage(q, image_id) ==
    IF RowsOf(image_id) = {} THEN q = Zero
    ELSE q.den > 0 /\ q.num * Cardinality(RowsOf(image_id)) = StarTotal(image_id) * q.den

\* C18: the average rating of an image is 0 without Rating rows and otherwise
\* the sum of the star values of its rows divided by their number ([one_star]
\* gives 1, [two_stars, four_stars] gives 3), and get_average_rating and
\* calc_average_rating return the same value for every table.
C18_AverageRating ==
    /\ (last.op \in {"common_image_rating", "images_rating_list"} /\ last.status = 200)
        => /\ IsAverage(last.result, last.req.image_id)
           /\ ({Flags(r) : r \in RowsOf(last.req.image_id)}
                    = {RatingModel(TRUE, FALSE, FALSE, FALSE, FALSE)})
               => last.result = [num |-> 1, den |-> 1]
           /\ ({Flags(r) : r \in RowsOf(last.req.image_id)}
                    = {RatingModel(FALSE, TRUE, FALSE, FALSE, FALSE),
                       RatingModel(FALSE, FALSE, FALSE, TRUE, FALSE)})
               => last.result = [num |-> 3, den |-> 1]
    /\ \A i \in ImageIds : get_average_rating(ratings, i) = calc_average_rating(ratings, i)

\* The route answered 3 for an image rated two_stars by one and four_stars by
\* another.
C18_Witness ==
    /\ last.op = "common_image_rating" /\ last.status = 200
    /\ {Flags(r) : r \in RowsOf(last.req.image_id)}
            = {RatingModel(FALSE, TRUE, FALSE, FALSE, FALSE),
               RatingModel(FALSE, FALSE, FALSE, TRUE, FALSE)}
    /\ last.result = [num |-> 3, den |-> 1]

----------------------------------------------------------------------------
(* Tagging: uploads and add_tag calls of one user, over tag lists with more
   than five tags, repeated tags, mixed case and blank entries *)

\* ",".join(names)
RECURSIVE Join(_)
Join(names) ==
    IF Len(names) = 1 THEN <<Head(names)>>
    ELSE <<Head(names), ",">> \o Join(Tail(names))

\* body.tags of the requests: one comma-separated string each
TaggingBodies ==
    { <<Join(<<"a", "b">>)>>,
      <<Join(<<"a", "b", "c", "d", "e">>)>>,
      <<Join(<<"a", "b", "c", "d", "e", "f">>)>>,
      <<Join(<<"A", "a", "b", "c", "d", "e">>)>>,
      <<Join(<<" ", "a">>)>> }

\* The client that uploads and tags: the user
TaggingTokens == {create_access_token(GalleryUsers[3].email, Timeline[1])}

NextTagging ==
    \/ \E t \in TaggingTokens, b \in TaggingBodies : upload_image(t, b, "d0")
    \/ \E t \in TaggingTokens, i \in 1..MaxImages, b \in TaggingBodies : add_tag_route(t, i, b)

SpecTagging == InitGallery /\ [][NextTagging]_vars

\* The names of the Tag rows an image row is associated with
TagNamesOf(image) == {t.name : t \in {t \in tags : t.id \in image.tags}}

\* C20: after add_image or add_tag the image is associated with at most 5
\* tags, exactly the first five distinct tags of the normalized input (all of
\* them when there are five or fewer), and the tags beyond the fifth still
\* get Tag rows without being associated with the image.
C20_FirstFiveTags ==
    (last.op \in {"upload_image", "add_tag"} /\ last.status \in {200, 201})
    => LET norm == C19_normalize(last.req.tags)
           k == IF Len(norm) < MaxImageTags THEN Len(norm) ELSE MaxImageTags
       IN  /\ last.result \in images
           /\ Cardinality(last.result.tags) <= MaxImageTags
           /\ TagNamesOf(last.result) = {norm[i] : i \in 1..k}
           /\ \A i \in 1..Len(norm) : \E t \in tags : t.name = norm[i]

----------------------------------------------------------------------------
(* Tag rows: the tag routes and the image routes writing the same table *)

\* repository/tags.py get_tag_by_name
get_tag_by_name(db_tags, tag_name) ==
    IF \E t \in db_tags : t.name = lower(tag_name)
    THEN CHOOSE t \in db_tags : t.name = lower(tag_name)
    ELSE NULL

\* repository/tags.py create_tag
create_tag(db_tags, id, name) ==
    Outcome(db_tags \cup {Tag(id, lower(name))}, Tag(id, lower(name)), 0)

\* routes/tags.py access_create
tags_access_create == {"admin", "moderator", "user"}

\* routes/tags.py create_tag; TagModel refuses a name longer than max_length
create_tag_route(token, name) ==
    LET a == Authorize(tags_access_create, token)
        req == [name |-> name]
        check_tag == get_tag_by_name(tags, lower(name))
        o == create_tag(tags, nextId.tag, name)
    IN  /\ UNCHANGED tokenVars /\ UNCHANGED signing
        /\ \/ Refused("create_tag", req, a)
           \/ /\ a.status = 200
              /\ IF Len(name) > max_length
                 THEN /\ last' = Reply("create_tag", req, 422, "validation", a.user, NULL)
                      /\ UNCHANGED <<tags, nextId>>
                 ELSE IF check_tag # NULL
                 THEN /\ last' = Reply("create_tag", req, 409, "Such tag already exist", a.user, NULL)
                      /\ UNCHANGED <<tags, nextId>>
                 ELSE /\ tags' = o.table
                      /\ nextId' = [nextId EXCEPT !.tag = @ + 1]
                      /\ last' = Reply("create_tag", req, 200, "ok", a.user, o.result)
              /\ UNCHANGED <<users, images, ratings, comments>>

\* The names sent to the tag routes: mixed case, and around max_length
RouteTagNames == {<<"a">>, <<"A">>, Repeat("A", max_length), Repeat("a", max_length + 1)}

\* body.tags sent to the image routes: mixed case, and longer than the cut
RouteTagBodies == {<<Join(<<"A", "b">>)>>, <<Repeat("A", TagLen + 1)>>}

\* The client of the tag site: the moderator
TagSiteTokens == {create_access_token(GalleryUsers[2].email, Timeline[1])}

\* The ids the tag rows of the site can get
TagSiteIds == 1..3

NextTags ==
    \/ \E t \in TagSiteTokens, n \in RouteTagNames : create_tag_route(t, n)
    \/ \E t \in TagSiteTokens, i \in TagSiteIds, n \in RouteTagNames : update_tag_route(t, i, n)
    \/ \E t \in TagSiteTokens, b \in RouteTagBodies : upload_image(t, b, "d0")
    \/ \E t \in TagSiteTokens, i \in 1..MaxImages, b \in RouteTagBodies : add_tag_route(t, i, b)

SpecTags == InitGallery /\ [][NextTags]_vars

\* Every name is lower-case and at most 25 characters long, and no two rows
\* have the same name.
TagNamesWellFormed(db_tags) ==
    /\ \A t \in db_tags : Len(t.name) <= 25 /\ t.name = lower(t.name)
    /\ \A t, o \in db_tags : t.name = o.name => t = o

\* A step of the tag site: the table stays well formed, create_tag for a name
\* in use answers 409 and update_tag to a name in use answers without a row,
\* both leaving the table as it was.
C21_Step ==
    LET r == last'
    IN  /\ TagNamesWellFormed(tags')
        /\ (r.op \in {"create_tag", "update_tag"} /\ Served(r)
                /\ \E t \in tags : t.name = lower(r.req.name))
           => /\ tags' = tags
              /\ r.result = NULL
              /\ r.status = IF r.op = "create_tag" THEN 409 ELSE 404

\* C21: in every state reachable through create_tag, update_tag, add_image
\* and add_tag every Tag name is lower-case, at most 25 characters long and
\* unique; create_tag for an existing name fails with a conflict and
\* update_tag to a name in use changes nothing.
C21_TagNamesUnique == [][C21_Step]_vars

\* create_tag was refused with a conflict for a name that the cut of add_image
\* had stored with 25 lower-case characters.
C21_Witness ==
    /\ last.op = "create_tag" /\ last.status = 409
    /\ Len(last.req.name) = max_length
    /\ last.req.name # lower(last.req.name)
    /\ \E t \in tags : t.name = lower(last.req.name)
    /\ \E i \in images : \E t \in tags : t.id \in i.tags /\ Len(t.name) = TagLen

----------------------------------------------------------------------------
(* Accounts with their user names: signup and profile_update *)

\* A users row with its username column
Named(row, username) ==
    [f \in DOMAIN row \cup {"username"} |-> IF f = "username" THEN username ELSE row[f]]

\* db.query(User).filter(User.username == username).first(), 0 for None
get_user_info(db, username) ==
    IF \E i \in 1..Len(db) : db[i].username = username
    THEN CHOOSE i \in 1..Len(db) :
            /\ db[i].username = username
            /\ \A j \in 1..(i - 1) : db[j].username # username
    ELSE 0

\* The run holds at most MaxAccounts accounts.
AccountRoom == Len(users) < MaxAccounts

\* signup that creates the row without looking the e-mail up first: the unique
\* column refuses the insert of an e-mail in use
signup_named_no_lookup(username, email, password) ==
    /\ UNCHANGED <<clock, inflight>> /\ UNCHANGED galleryVars
    /\ \/ /\ ~unique_email(users, email)
          /\ last' = Reply("signup", [username |-> username, email |-> email], 500,
                           "IntegrityError", 0, NULL)
          /\ UNCHANGED <<users, issued, lastIssued>>
       \/ /\ unique_email(users, email)
          /\ AccountRoom
          /\ users' = Append(users, Named(create_user(users, email, get_password_hash(password))[Len(users) + 1],
                                          username))
          /\ lastIssued' = [i \in 1..(Len(users) + 1) |-> IF i <= Len(users) THEN lastIssued[i] ELSE NULL]
          /\ issued' = issued \cup {create_email_token(email, now)}
          /\ last' = Reply("signup", [username |-> username, email |-> email], 201, "ok",
                           Len(users) + 1, users'[Len(users) + 1])

\* routes/auth.py signup with the username of the body stored in the row
signup_named(username, email, password) ==
    /\ UNCHANGED <<clock, inflight>> /\ UNCHANGED galleryVars
    /\ \/ /\ get_user_by_email(users, email) # 0
          /\ last' = Reply("signup", [username |-> username, email |-> email], 409,
                           "account_already_exists", 0, NULL)
          /\ UNCHANGED <<users, issued, lastIssued>>
       \/ /\ get_user_by_email(users, email) = 0
          /\ AccountRoom
          /\ users' = Append(users, Named(create_user(users, email, get_password_hash(password))[Len(users) + 1],
                                          username))
          /\ lastIssued' = [i \in 1..(Len(users) + 1) |-> IF i <= Len(users) THEN lastIssued[i] ELSE NULL]
          /\ issued' = issued \cup {create_email_token(email, now)}
          /\ last' = Reply("signup", [username |-> username, email |-> email], 201, "ok",
                           Len(users) + 1, users'[Len(users) + 1])

\* repository/users.py update_user_info: 404 without a row of that username;
\* the commit is refused when the new e-mail is the one of another row
update_user_info(db, body, username) ==
    LET id == get_user_info(db, username)
        others == [i \in 1..Len(db) |-> IF i = id THEN [db[i] EXCEPT !.email = ""] ELSE db[i]]
    IN  IF id = 0 THEN Outcome(db, NULL, 404)
        ELSE IF ~unique_email(others, body.email) THEN Outcome(db, NULL, 500)
        ELSE Outcome([db EXCEPT ![id].username = body.username, ![id].email = body.email],
                     [db[id] EXCEPT !.username = body.username, !.email = body.email], 0)

\* routes/users.py access_update
users_access_update == {"admin", "moderator", "user"}

\* routes/users.py profile_update
profile_update(token, username, body) ==
    LET a == Authorize(users_access_update, token)
        req == [username |-> username, body |-> body]
        o == update_user_info(users, body, username)
    IN  /\ UNCHANGED tokenVars /\ UNCHANGED galleryVars
        /\ \/ /\ a.status # 200
              /\ last' = Reply("profile_update", req, a.status, a.detail, a.user, NULL)
              /\ UNCHANGED users
           \/ /\ a.status = 200
              /\ IF users[a.user].username # username /\ users[a.user].role = "user"
                 THEN /\ last' = Reply("profile_update", req, 403,
                                       "You can only update your own profile", a.user, NULL)
                      /\ UNCHANGED users
                 ELSE /\ users' = o.table
                      /\ last' = IF o.raised # 0
                                 THEN Reply("profile_update", req, o.raised,
                                            IF o.raised = 404 THEN "User not found" ELSE "IntegrityError",
                                            a.user, NULL)
                                 ELSE Reply("profile_update", req, 200, "ok", a.user, o.result)

\* The three accounts of the site with their user names
ProfileUsers ==
    << Named(GalleryUsers[1], "adm"), Named(GalleryUsers[2], "mod"), Named(GalleryUsers[3], "usr") >>

ProfileNames == {"usr", "new"}
ProfileEmails == {"a@x", "u@x", "n@x"}

\* The clients of the profile routes: the admin and the user
ProfileTokens == {create_access_token(GalleryUsers[i].email, Timeline[1]) : i \in {1, 3}}

\* UserUpdate bodies
UserUpdate == [username : ProfileNames, email : ProfileEmails]

InitProfile ==
    /\ users = ProfileUsers
    /\ clock = 1
    /\ issued = GalleryTokens
    /\ lastIssued = [i \in 1..Len(ProfileUsers) |-> NULL]
    /\ inflight = [s \in 1..MaxInflight |-> NULL]
    /\ last = NoRequest
    /\ signing = [s \in 1..MaxSigning |-> NULL]
    /\ images = {}
    /\ tags = {}
    /\ ratings = {}
    /\ comments = {}
    /\ nextId = [image |-> 1, tag |-> 1, rating |-> 1, comment |-> 1]

NextProfile ==
    \/ \E n \in ProfileNames, e \in ProfileEmails, p \in SignupPasswords :
            signup_named(n, e, p)
    \/ \E t \in ProfileTokens, n \in ProfileNames \cup {"adm"}, b \in UserUpdate :
            profile_update(t, n, b)

SpecProfile == InitProfile /\ [][NextProfile]_vars

\* No two accounts have the same e-mail
EmailsUnique(db) == \A i, j \in 1..Len(db) : db[i].email = db[j].email => i = j

\* A step of signup or profile_update: the e-mails stay unique, and a signup
\* with an e-mail that belongs to an account answers 409 and adds no account.
C22_Step ==
    /\ EmailsUnique(users')
    /\ (last'.op = "signup" /\ get_user_by_email(users, last'.req.email) # 0)
       => last'.status = 409 /\ users' = users

\* C22: after any sequence of signup and profile-update operations no two
\* accounts have the same e-mail; signup with an e-mail in use fails with a
\* conflict and creates no account, and a profile update never makes an
\* account's e-mail equal to another account's.
C22_EmailUnique == [][C22_Step]_vars

\* A profile update asked for the e-mail of another account and was refused.
C22_Witness ==
    /\ last.op = "profile_update" /\ last.status = 500
    /\ \E i \in 1..Len(users) :
          /\ users[i].email = last.req.body.email
          /\ users[i].username # last.req.username
    /\ Len(users) = 4

----------------------------------------------------------------------------
(* Failing requests and the store *)

\* C23: a request that fails leaves the store unchanged; add_tag on an image
\* that does not exist, or that the principal may not modify, answers 404
\* without having created any Tag row.
C23_FailureWritesNothing ==
    [][last'.status >= 400
        => /\ <<users, images, tags, ratings, comments>>' = <<users, images, tags, ratings, comments>>
           /\ (last'.op = "add_tag" /\ last'.result = NULL) => last'.status = 404]_vars

----------------------------------------------------------------------------
(* Comments: update_comment *)

\* repository/comments.py get_comment_by_id
get_comment_by_id(db_comments, comment_id) == Row(db_comments, comment_id)

\* repository/comments.py update_comment
update_comment(db_comments, body, comment_id) ==
    LET comment == get_comment_by_id(db_comments, comment_id)
    IN  IF comment = NULL THEN Outcome(db_comments, NULL, 0)
        ELSE Outcome((db_comments \ {comment})
                        \cup {[comment EXCEPT !.comment = body.comment]},
                     [comment EXCEPT !.comment = body.comment], 0)

\* routes/comments_routes.py access_update
comments_access_update == {"admin", "moderator", "user"}

\* routes/comments_routes.py update_comment
update_comment_route(token, comment_id, body) ==
    LET a == Authorize(comments_access_update, token)
        req == [comment_id |-> comment_id, body |-> body]
        o == update_comment(comments, body, comment_id)
    IN  /\ UNCHANGED tokenVars /\ UNCHANGED signing
        /\ \/ Refused("update_comment", req, a)
           \/ /\ a.status = 200
              /\ IF a.user # body.user_id /\ users[a.user].role = "user"
                 THEN /\ last' = Reply("update_comment", req, 403,
                                       "You can't change not your comment", a.user, NULL)
                      /\ UNCHANGED comments
                 ELSE /\ comments' = o.table
                      /\ last' = IF o.result = NULL
                                 THEN Reply("update_comment", req, 404, "No such comment", a.user, NULL)
                                 ELSE Reply("update_comment", req, 200, "ok", a.user, o.result)
              /\ UNCHANGED <<users, images, tags, ratings, nextId>>

\* CommentModel bodies: the text, and the user_id the client fills in
CommentModel == [user_id : 1..3, comment : {"c1", "c2"}]

\* The image of the admin with a comment of each of the other two accounts
InitComments ==
    /\ InitSite
    /\ images = {Image(1, 1, "d0", {})}
    /\ tags = {}
    /\ ratings = {}
    /\ comments = {Comment(1, 1, 2, "c0"), Comment(2, 1, 3, "c0")}
    /\ nextId = [image |-> 2, tag |-> 1, rating |-> 1, comment |-> 3]

NextComments ==
    \E t \in MemberTokens, c \in 1..3, b \in CommentModel : update_comment_route(t, c, b)

SpecComments == InitComments /\ [][NextComments]_vars

\* C24: update_comment by a principal with role user changes a comment only
\* if that principal is the author of the stored comment, whatever the request
\* body contains.
C24_UserOwnComment ==
    [][(last'.op = "update_comment" /\ last'.user # 0 /\ users[last'.user].role = "user")
        => \A c \in comments : c \notin comments' => c.user_id = last'.user]_vars

----------------------------------------------------------------------------
(* The five-tag warning *)

\* C25: add_image and add_tag append the five-tag warning exactly when at
\* least one normalized tag was left unassociated because of the cap, that is
\* when more than five tags were supplied; with five or fewer there is no
\* warning.
C25_WarningWhenCapped ==
    (last.op \in {"upload_image", "add_tag"} /\ last.status \in {200, 201})
    => (last.detail # ""
            <=> Len(images_service_normalize_tags(last.req.tags)) > MaxImageTags)

\* C30: no Tag row with an empty name is ever created by add_image or
\* add_tag, for any tag input, including entries of whitespace or of commas
\* and whitespace only.
C30_NoEmptyTagName ==
    \A t \in tags : t.name # <<>>

----------------------------------------------------------------------------
(* create_rating requests served by different workers: the query for the
   rating the user already gave (line 88) and the insert (lines 93-94) of one
   request are separate steps, and another request runs between them *)

\* routes/ratings.py create_rate up to repository/ratings.py line 90: slot s
\* runs the checks and the queries; a request that inserts nothing is answered
\* at once
RatingBegin(s, token, image_id, body) ==
    LET a == Authorize(ratings_access_create, token)
        req == [image_id |-> image_id, body |-> body]
        o == create_rating(images, ratings, nextId.rating, image_id, body, a.user)
    IN  /\ signing[s] = NULL
        /\ UNCHANGED tokenVars
        /\ \/ /\ Refused("create_rate", req, a)
              /\ UNCHANGED signing
           \/ /\ a.status = 200
              /\ o.table = ratings
              /\ last' = IF o.raised # 0
                         THEN Reply("create_rate", req, o.raised, "Image not found", a.user, NULL)
                         ELSE IF o.result = NULL
                         THEN Reply("create_rate", req, 400, "check the image_id", a.user, NULL)
                         ELSE Reply("create_rate", req, 200, "ok", a.user, o.result)
              /\ UNCHANGED <<users, images, tags, ratings, comments, nextId, signing>>
           \/ /\ a.status = 200
              /\ o.table # ratings
              /\ RatingRoom
              /\ signing' = [signing EXCEPT ![s] = [image_id |-> image_id, body |-> body, user |-> a.user]]
              /\ last' = Reply("create_rate", req, 0, "querying", a.user, NULL)
              /\ UNCHANGED <<users, images, tags, ratings, comments, nextId>>

\* repository/ratings.py lines 91-96: slot s inserts its row and answers
RatingEnd(s) ==
    LET r == signing[s]
        rating == Rating(nextId.rating, r.image_id, r.user, r.body)
    IN  /\ signing[s] # NULL
        /\ signing' = [signing EXCEPT ![s] = NULL]
        /\ ratings' = ratings \cup {rating}
        /\ nextId' = [nextId EXCEPT !.rating = @ + 1]
        /\ last' = Reply("create_rate", [image_id |-> r.image_id, body |-> r.body], 200, "ok",
                         r.user, rating)
        /\ UNCHANGED <<users, images, tags, comments>>
        /\ UNCHANGED tokenVars

NextRatingRace ==
    \/ \E s \in SigningSlots, t \in RatingTokens, i \in ImageIds, b \in Selections :
            RatingBegin(s, t, i, b)
    \/ \E s \in SigningSlots : RatingEnd(s)

SpecRatingRace == InitRatings /\ [][NextRatingRace]_vars

\* C26: when two create_rating requests by the same non-owner user for the
\* same image, each with exactly one true flag, run concurrently, at most one
\* Rating row for that (user, image) exists afterwards.
C26_RaceOnePerPair ==
    \A r \in ratings : Cardinality({o \in ratings : o.user_id = r.user_id /\ o.image_id = r.image_id}) <= 1

----------------------------------------------------------------------------
(* Refresh tokens of one second, failing logins and refreshes, block_user *)

\* C27: two refresh tokens issued for the same subject by different login or
\* refresh operations are different strings, also within one clock second; a
\* refresh right after a login or another refresh returns a refresh token
\* different from the presented one, which is no longer the stored one.
C27_RefreshTokensDiffer ==
    [][((RequestStep("login") \/ RequestStep("refresh")) /\ last'.status = 200)
        => /\ last'.refresh_token \notin issued
           /\ last'.op = "refresh"
              => /\ last'.refresh_token # last'.req
                 /\ users'[last'.user].refresh_token # last'.req]_vars

\* A failing request leaves the users table alone, except the refresh that
\* presents a token other than the stored one: that one sets the stored token
\* of its account to NULL and changes nothing else.
C28_Step ==
    LET r == last'
        id == get_user_by_email(users, r.req.sub)
    IN  (clock' = clock /\ r.status \notin {200, 201})
        => IF r.op = "refresh" /\ ReuseDetected(r)
           THEN users' = [users EXCEPT ![id].refresh_token = NULL]
           ELSE users' = users

C29_Step ==
    LET r == last'
        id == get_user_by_email(users, r.req.email)
    IN  (RequestStep("block_user") /\ r.status \notin {401, 403, 500})
        => IF id = 0
           THEN r.status = 404 /\ users' = users
           ELSE /\ r.status = 200
                /\ users' = [users EXCEPT ![id].banned = r.req.banned]
                /\ (~r.req.banned /\ users[id].refresh_token # NULL)
                   => refresh_decide(users'[id], users[id].refresh_token).status = 200

\* C29: block_user changes only Account.banned of the account with the given
\* e-mail and leaves its refresh_token, confirmed flag and role untouched, so
\* a refresh token stored before a ban is accepted again once the account is
\* unbanned; for an e-mail with no account it answers 404 and changes nothing.
C29_BlockOnlyBans == [][C29_Step]_vars

\* A banned account that holds a refresh token has just been unbanned.
C29_Witness ==
    /\ last.op = "block_user" /\ last.status = 200 /\ ~last.req.banned
    /\ LET id == get_user_by_email(users, last.req.email)
       IN  /\ id # 0
           /\ users[id].refresh_token # NULL
           /\ ~users[id].banned
           /\ Unexpired(users[id].refresh_token)

====
